---- MODULE Spec2Model ----
(***************************************************************************)
(* ipumspy: decoding of IPUMS microdata under a DDI codebook, and the       *)
(* client of the IPUMS extract API.                                        *)
(*                                                                         *)
(* readers.py: _fix_float_dtypes, _read_microdata (fixed-width, csv and    *)
(* parquet branches), read_microdata, read_microdata_chunked,              *)
(* _get_common_vars, _get_rectype_vars, read_hierarchical_microdata.       *)
(* ddi.py: VariableDescription.pandas_type / numpy_type / read,            *)
(* Codebook.read, Codebook.get_all_types.  noextract.py:                   *)
(* read_noextract_codebook.  yrbss.py: __read_codebook.                    *)
(* api/core.py: retry_on_transient_error, IpumsApiClient.request,          *)
(* submit_extract, extract_status, download_extract, wait_for_extract.     *)
(* api/extract.py: BaseExtract.extract_id / extract_info /                 *)
(* _snake_to_camel, build, extract_to_dict.  cli.py: submit-and-download.  *)
(*                                                                         *)
(* A data file is a sequence of rows; a row gives, for every variable of   *)
(* the codebook, the text pandas.read_fwf slices out of the line at the    *)
(* variable's (start, end) and strips.  Text is a sequence of one-char     *)
(* strings.  A decoded cell is a record [k, s, n, e]:                      *)
(*   k = "NA"   missing (pd.NA / NaN)                                      *)
(*   k = "str"  the text s                                                 *)
(*   k = "int"  the integer n                                              *)
(*   k = "flt"  the float n / 10^e, with n not divisible by 10 when e > 0  *)
(***************************************************************************)
EXTENDS Integers, Sequences, FiniteSets, TLC

VARIABLES
    ddi,        \* the Codebook: [structure, vars]
    file,       \* the data file: sequence of rows, each [name -> text]
    result,     \* outcome of the last read_microdata / read_hierarchical_microdata call
    gen,        \* the generator read_microdata_chunked returned, and its frame's locals
    chunks,     \* the frames the generator has yielded so far, in order
    doc,        \* the document a codebook constructor is given
    parsed,     \* outcome of the last codebook-level call
    dtype_arg,  \* the dtype mapping object the caller passed, None or a dict
    api         \* the API client's call in progress, the extract object and the CLI loop

vars == <<ddi, file, result, gen, chunks, doc, parsed, dtype_arg, api>>

\* The variables of the file readers, which no API operation touches.
reader_vars == <<ddi, file, result, gen, chunks, doc, parsed, dtype_arg>>

----------------------------------------------------------------------------
(* Bounds of the model *)

MaxRows == 3        \* rows in a data file
MaxChunk == 3       \* largest chunksize a caller passes
MaxHierRows == 2    \* rows in a hierarchical data file
MaxVars == 2        \* variables in a document given to a codebook constructor

----------------------------------------------------------------------------
(* Text and numbers *)

NoShift == -1       \* VariableDescription.shift = None

Digit == {"0", "1", "2", "3", "4", "5", "6", "7", "8", "9"}

DigitVal(c) ==
    CASE c = "0" -> 0 [] c = "1" -> 1 [] c = "2" -> 2 [] c = "3" -> 3
      [] c = "4" -> 4 [] c = "5" -> 5 [] c = "6" -> 6 [] c = "7" -> 7
      [] c = "8" -> 8 [] c = "9" -> 9

DigitChar(d) ==
    CASE d = 0 -> "0" [] d = 1 -> "1" [] d = 2 -> "2" [] d = 3 -> "3"
      [] d = 4 -> "4" [] d = 5 -> "5" [] d = 6 -> "6" [] d = 7 -> "7"
      [] d = 8 -> "8" [] d = 9 -> "9"

RECURSIVE Pow10(_)
Pow10(e) == IF e <= 0 THEN 1 ELSE 10 * Pow10(e - 1)

AllDigits(s) == Len(s) > 0 /\ \A i \in 1..Len(s) : s[i] \in Digit

HasSign(s) == Len(s) > 0 /\ s[1] \in {"-", "+"}

Unsigned(s) == IF HasSign(s) THEN Tail(s) ELSE s

SignOf(s) == IF Len(s) > 0 /\ s[1] = "-" THEN -1 ELSE 1

RECURSIVE DigitsVal(_)
DigitsVal(s) ==
    IF s = <<>> THEN 0
    ELSE 10 * DigitsVal(SubSeq(s, 1, Len(s) - 1)) + DigitVal(s[Len(s)])

\* int(text) succeeds: an optional sign and one or more digits
IsIntText(s) == AllDigits(Unsigned(s))

IntOfText(s) == SignOf(s) * DigitsVal(Unsigned(s))

DotAt(s) == {i \in 1..Len(s) : s[i] = "."}

NoDot(s) == SelectSeq(s, LAMBDA c : c # ".")

\* float(text) succeeds: optional sign, digits with at most one point
IsFloatText(s) ==
    /\ Cardinality(DotAt(Unsigned(s))) <= 1
    /\ AllDigits(NoDot(Unsigned(s)))

RECURSIVE Normal(_, _)
Normal(n, e) == IF e > 0 /\ n % 10 = 0 THEN Normal(n \div 10, e - 1) ELSE <<n, e>>

NA == [k |-> "NA", s |-> <<>>, n |-> 0, e |-> 0]
StrV(s) == [k |-> "str", s |-> s, n |-> 0, e |-> 0]
IntV(n) == [k |-> "int", s |-> <<>>, n |-> n, e |-> 0]
FltV(n, e) == [k |-> "flt", s |-> <<>>, n |-> Normal(n, e)[1], e |-> Normal(n, e)[2]]

\* float(text): the digits without the point, over 10^(digits after the point)
FloatOfText(s) ==
    LET u == Unsigned(s)
        frac == IF DotAt(u) = {} THEN 0 ELSE Len(u) - (CHOOSE i \in DotAt(u) : TRUE)
    IN  FltV(SignOf(s) * DigitsVal(NoDot(u)), frac)

RECURSIVE NatText(_)
NatText(n) == IF n < 10 THEN <<DigitChar(n)>> ELSE NatText(n \div 10) \o <<DigitChar(n % 10)>>

RECURSIVE PadLeft(_, _)
PadLeft(s, w) == IF Len(s) >= w THEN s ELSE PadLeft(<<"0">> \o s, w)

\* str(float): integer part, a point, and at least one digit after it
TextOfFloat(v) ==
    LET a == IF v.n < 0 THEN -v.n ELSE v.n
        p == Pow10(v.e)
        fracText == IF v.e = 0 THEN <<"0">> ELSE PadLeft(NatText(a % p), v.e)
    IN  (IF v.n < 0 THEN <<"-">> ELSE <<>>) \o NatText(a \div p) \o <<".">> \o fracText

\* truncation toward zero of the float v (numpy's float -> int cast)
TruncOf(v) == IF v.n < 0 THEN -((-v.n) \div Pow10(v.e)) ELSE v.n \div Pow10(v.e)

----------------------------------------------------------------------------
(* The codebook *)

ToSet(seq) == {seq[i] : i \in DOMAIN seq}

NamesOf(descs) == [i \in DOMAIN descs |-> descs[i].name]

\* A subset argument: None, or a list of names
NoSubset == [given |-> FALSE, names |-> <<>>]
SubsetOf(names) == [given |-> TRUE, names |-> names]

\* pandas_type with the shift ignored: every numeric variable an integer
pandas_type_shift_blind(desc) ==
    IF desc.vartype = "numeric" THEN "Int64" ELSE "string"

\* VariableDescription.pandas_type
pandas_type(desc) ==
    IF desc.vartype = "numeric"
    THEN IF desc.shift = NoShift \/ desc.shift = 0 THEN "Int64" ELSE "float64"
    ELSE "string"

\* VariableDescription.python_type
python_type(desc) ==
    IF desc.vartype = "numeric"
    THEN IF desc.shift = NoShift \/ desc.shift = 0 THEN "int" ELSE "float"
    ELSE "str"

\* VariableDescription.numpy_type: both branches of the shift test give np.float64
numpy_type(desc) ==
    IF desc.vartype = "numeric"
    THEN IF desc.shift = NoShift \/ desc.shift = 0 THEN "float64" ELSE "float64"
    ELSE "str"

\* VariableDescription.pandas_type_efficient
pandas_type_efficient(desc) ==
    IF desc.vartype = "numeric" THEN "float64" ELSE "string"

\* the attribute names get_all_types documents
TypeFormats == {"numpy_type", "pandas_type", "pandas_type_efficient", "python_type", "vartype"}

\* getattr(variable_descr, type_format) for an attribute the class has
type_value(desc, type_format) ==
    CASE type_format = "numpy_type" -> numpy_type(desc)
      [] type_format = "pandas_type" -> pandas_type(desc)
      [] type_format = "pandas_type_efficient" -> pandas_type_efficient(desc)
      [] type_format = "python_type" -> python_type(desc)
      [] type_format = "vartype" -> desc.vartype

\* Codebook.get_all_types(type_format, string_pyarrow): the map name -> type;
\* string_pyarrow with another format than the two pandas ones, or an
\* attribute VariableDescription does not have, raises ValueError
get_all_types(codebook, type_format, string_pyarrow) ==
    IF type_format \notin {"pandas_type", "pandas_type_efficient"} /\ string_pyarrow
    THEN [op |-> "get_all_types", status |-> "ValueError", type_format |-> type_format,
          string_pyarrow |-> string_pyarrow, types |-> <<>>]
    ELSE IF type_format \notin TypeFormats /\ codebook.vars # <<>>
    THEN [op |-> "get_all_types", status |-> "ValueError", type_format |-> type_format,
          string_pyarrow |-> string_pyarrow, types |-> <<>>]
    ELSE [op |-> "get_all_types", status |-> "ok", type_format |-> type_format,
          string_pyarrow |-> string_pyarrow,
          types |-> [n \in ToSet(NamesOf(codebook.vars)) |->
                        LET d == codebook.vars[CHOOSE i \in DOMAIN codebook.vars :
                                    /\ codebook.vars[i].name = n
                                    /\ \A j \in DOMAIN codebook.vars :
                                            codebook.vars[j].name = n => j <= i]
                            t == type_value(d, type_format)
                        IN  IF t = "string" /\ string_pyarrow
                            THEN "string[pyarrow]" ELSE t]]

\* a variant that follows the order of the subset list
select_descs_subset_order(codebook, subset) ==
    IF subset.given
    THEN LET known == SelectSeq(subset.names,
                                LAMBDA n : n \in ToSet(NamesOf(codebook.vars)))
         IN  [i \in DOMAIN known |->
                CHOOSE d \in ToSet(codebook.vars) : d.name = known[i]]
    ELSE codebook.vars

\* [desc for desc in ddi.data_description if desc.name in subset]
select_descs(codebook, subset) ==
    IF subset.given
    THEN SelectSeq(codebook.vars, LAMBDA d : d.name \in ToSet(subset.names))
    ELSE codebook.vars

----------------------------------------------------------------------------
(* Building a codebook: Codebook.read / VariableDescription.read on a DDI  *)
(* document, read_noextract_codebook and yrbss.__read_codebook on a YAML   *)
(* document.  A DDI document is [kind, file_txts, vars]: file_txts is the  *)
(* number of fileDscr/fileTxt elements, vars the dataDscr/var elements     *)
(* [name, StartPos, EndPos, has_dcml, dcml] with attribute values as text. *)
(* A YAML document's variables are [name, start_column, width,            *)
(* implied_decimals] with integer values.                                  *)

NoDoc == [kind |-> "none", file_txts |-> 0, vars |-> <<>>]

NoCodebook == [structure |-> "none", vars |-> <<>>]

\* outcome of a constructor call: built counts the FileDescription and
\* VariableDescription objects constructed before it returned or raised
NoParsed == [op |-> "none", status |-> "none", codebook |-> NoCodebook, built |-> 0]

\* dtype=None, or the dict object the caller passed
NoDtype == [given |-> FALSE, map |-> <<>>]

\* no API call made yet
NoApi == [op |-> "none", state |-> "idle"]
DtypeOf(map) == [given |-> TRUE, map |-> map]

\* VariableDescription.read: int() of StartPos, EndPos and dcml; a value int()
\* rejects raises ValueError
var_read_ok(elt) ==
    /\ IsIntText(elt.StartPos)
    /\ IsIntText(elt.EndPos)
    /\ elt.has_dcml => IsIntText(elt.dcml)

VariableDescription_read(elt) ==
    [name    |-> elt.name,
     start   |-> IntOfText(elt.StartPos) - 1,
     end     |-> IntOfText(elt.EndPos),
     vartype |-> "numeric",
     shift   |-> IF elt.has_dcml THEN IntOfText(elt.dcml) ELSE NoShift,
     rectype |-> << <<>> >>]

\* [VariableDescription.read(desc) for desc in elt.findall(".../ddi:var")]
\* from element i on; acc is [status, vars]
RECURSIVE data_description_from(_, _, _)
data_description_from(elts, i, acc) ==
    IF i > Len(elts) THEN acc
    ELSE IF ~var_read_ok(elts[i]) THEN [acc EXCEPT !.status = "ValueError"]
    ELSE data_description_from(elts, i + 1,
            [acc EXCEPT !.vars = Append(@, VariableDescription_read(elts[i]))])

\* the return cls(...) of Codebook.read given d, the data description
codebook_built(d) ==
    [op |-> "Codebook.read", status |-> d.status,
     codebook |-> IF d.status = "ok"
                  THEN [structure |-> "rectangular", vars |-> d.vars] ELSE NoCodebook,
     built |-> 1 + Len(d.vars)]

\* a variant that builds the descriptions of the document first and counts
\* the file-description blocks afterwards
Codebook_read_check_last(document) ==
    IF document.file_txts # 1
    THEN [NoParsed EXCEPT !.op = "Codebook.read", !.status = "NotImplementedError",
                          !.built = document.file_txts + Len(document.vars)]
    ELSE codebook_built(data_description_from(document.vars, 1,
                                              [status |-> "ok", vars |-> <<>>]))

\* Codebook.read: len(file_txts) != 1 raises before anything else is read
Codebook_read(document) ==
    IF document.file_txts # 1
    THEN [NoParsed EXCEPT !.op = "Codebook.read", !.status = "NotImplementedError"]
    ELSE codebook_built(data_description_from(document.vars, 1,
                                              [status |-> "ok", vars |-> <<>>]))

\* read_noextract_codebook: VariableDescription(..., start_column - 1,
\* start_column + width - 1, ..., implied_decimals) for val in j["variables"]
noextract_variable(val) ==
    [name    |-> val.name,
     start   |-> val.start_column - 1,
     end     |-> val.start_column + val.width - 1,
     vartype |-> "numeric",
     shift   |-> val.implied_decimals,
     rectype |-> << <<>> >>]

read_noextract_codebook(document) ==
    [op |-> "read_noextract_codebook", status |-> "ok",
     codebook |-> [structure |-> "rectangular",
                   vars |-> [i \in DOMAIN document.vars |->
                               noextract_variable(document.vars[i])]],
     built |-> 1 + Len(document.vars)]

\* yrbss.__read_codebook: VariableDescription(..., start_column - 1,
\* start_column + width, ..., implied_decimals) for val in j["variables"]
yrbss_variable(val) ==
    [name    |-> val.name,
     start   |-> val.start_column - 1,
     end     |-> val.start_column + val.width,
     vartype |-> "numeric",
     shift   |-> val.implied_decimals,
     rectype |-> << <<>> >>]

yrbss_read_codebook(document) ==
    [op |-> "yrbss.__read_codebook", status |-> "ok",
     codebook |-> [structure |-> "rectangular",
                   vars |-> [i \in DOMAIN document.vars |->
                               yrbss_variable(document.vars[i])]],
     built |-> 1 + Len(document.vars)]

----------------------------------------------------------------------------
(* Data frames: [cols, dtype, rows]; a row is [idx, c], idx its index label *)

EmptyFrame == [cols |-> <<>>, dtype |-> <<>>, rows |-> <<>>]

Column(df, name) == [i \in DOMAIN df.rows |-> df.rows[i].c[name]]

SetColumn(df, name, col, dt) ==
    [df EXCEPT !.rows = [i \in DOMAIN df.rows |->
                            [df.rows[i] EXCEPT !.c = [@ EXCEPT ![name] = col[i]]]],
               !.dtype = [@ EXCEPT ![name] = dt]]

\* pandas.read_fwf(colspecs, names, dtype = all StringDtype) on rows from+1 .. to
\* of the file: a blank field is missing, any other field is its stripped text
read_fwf(descs, rows, from, to) ==
    LET names == NamesOf(descs)
    IN  [cols  |-> names,
         dtype |-> [n \in ToSet(names) |-> "string"],
         rows  |-> [i \in 1..(to - from) |->
                      [idx |-> from + i - 1,
                       c   |-> [n \in ToSet(names) |->
                                  IF rows[from + i][n] = <<>> THEN NA
                                  ELSE StrV(rows[from + i][n])]]]]

----------------------------------------------------------------------------
(* Casts of one cell *)

\* int(x) of an element of a string column: ok, or the exception raised
IntCastError(cell) ==
    IF cell.k = "NA" THEN "TypeError"
    ELSE IF cell.k = "str" /\ ~IsIntText(cell.s) THEN "ValueError"
    ELSE "none"

\* Series.astype(int) on a string column: the exception of the first element
\* that cannot be converted, in row order
astype_int_error(col) ==
    LET bad == {i \in DOMAIN col : IntCastError(col[i]) # "none"}
    IN  IF bad = {} THEN "none"
        ELSE IntCastError(col[CHOOSE i \in bad : \A j \in bad : i <= j])

\* pd.to_numeric(errors="coerce").fillna(0).astype(int) of one element
coerce_int(cell) ==
    IF cell.k = "str" /\ IsFloatText(cell.s) THEN TruncOf(FloatOfText(cell.s))
    ELSE IF cell.k = "int" THEN cell.n
    ELSE IF cell.k = "flt" THEN TruncOf(cell)
    ELSE 0

\* can the element be held by a nullable Int64 column
Int64Ok(cell) ==
    CASE cell.k = "NA"  -> TRUE
      [] cell.k = "str" -> IsIntText(cell.s)
      [] cell.k = "int" -> TRUE
      [] cell.k = "flt" -> cell.e = 0

ToInt64(cell) ==
    CASE cell.k = "NA"  -> NA
      [] cell.k = "str" -> IntV(IntOfText(cell.s))
      [] cell.k = "int" -> cell
      [] cell.k = "flt" -> IntV(cell.n)

FloatOk(cell) == cell.k = "str" => IsFloatText(cell.s)

ToFloat(cell) ==
    CASE cell.k = "NA"  -> NA
      [] cell.k = "str" -> FloatOfText(cell.s)
      [] cell.k = "int" -> FltV(cell.n, 0)
      [] cell.k = "flt" -> cell

ToText(cell) ==
    CASE cell.k = "NA"  -> NA
      [] cell.k = "str" -> cell
      [] cell.k = "int" -> StrV((IF cell.n < 0 THEN <<"-">> ELSE <<>>)
                                \o NatText(IF cell.n < 0 THEN -cell.n ELSE cell.n))
      [] cell.k = "flt" -> StrV(TextOfFloat(cell))

----------------------------------------------------------------------------
(* _read_microdata, fixed-width branch: the per-frame pipeline *)

\* a variant that converts the column but never divides by 10**shift
fix_decimal_column_unscaled(df, desc) ==
    LET col == Column(df, desc.name)
        err == astype_int_error(col)
        out == [i \in DOMAIN col |-> FltV(coerce_int(col[i]), 0)]
    IN  IF err = "ValueError"
        THEN [err |-> "ValueError", df |-> df]
        ELSE [err |-> "none", df |-> SetColumn(df, desc.name, out, "float64")]

\* _fix_decimal_expansion on one column with shift > 0.  astype(int) raises
\* TypeError at a missing element (caught: every element is coerced, missing
\* and unparsable ones to 0) and ValueError at unparsable text (not caught).
fix_decimal_column(df, desc) ==
    LET col == Column(df, desc.name)
        err == astype_int_error(col)
        out == [i \in DOMAIN col |->
                  IF err = "none" THEN FltV(IntOfText(col[i].s), desc.shift)
                  ELSE FltV(coerce_int(col[i]), desc.shift)]
    IN  IF err = "ValueError"
        THEN [err |-> "ValueError", df |-> df]
        ELSE [err |-> "none", df |-> SetColumn(df, desc.name, out, "float64")]

needs_shift(desc) == desc.shift # NoShift /\ desc.shift > 0

\* for desc in data_description: if desc.shift is not None and desc.shift > 0: ...
RECURSIVE fix_decimal_from(_, _, _)
fix_decimal_from(descs, i, df) ==
    IF i > Len(descs) THEN [err |-> "none", df |-> df]
    ELSE IF ~needs_shift(descs[i]) THEN fix_decimal_from(descs, i + 1, df)
    ELSE LET r == fix_decimal_column(df, descs[i])
         IN  IF r.err # "none" THEN r ELSE fix_decimal_from(descs, i + 1, r.df)

fix_decimal_expansion(descs, df) == fix_decimal_from(descs, 1, df)

\* a variant that never tries the Int64 cast: every Int64 entry becomes Float64
fix_float_column_always_float(dtype, df, name) ==
    IF dtype[name] # "Int64" THEN [dtype |-> dtype, df |-> df]
    ELSE [dtype |-> [dtype EXCEPT ![name] = "Float64"], df |-> df]

\* _fix_float_dtypes on one column: the cast to Int64 is tried when the dtype
\* dict says Int64; on failure the dict entry becomes Float64 and the column is
\* left as it was, on success the column is replaced by its Int64 cast
fix_float_column(dtype, df, name) ==
    IF dtype[name] # "Int64" THEN [dtype |-> dtype, df |-> df]
    ELSE LET col == Column(df, name)
         IN  IF \A i \in DOMAIN col : Int64Ok(col[i])
             THEN [dtype |-> dtype,
                   df    |-> SetColumn(df, name, [i \in DOMAIN col |-> ToInt64(col[i])], "Int64")]
             ELSE [dtype |-> [dtype EXCEPT ![name] = "Float64"], df |-> df]

RECURSIVE fix_float_from(_, _, _)
fix_float_from(dtype, df, i) ==
    IF i > Len(df.cols) THEN [dtype |-> dtype, df |-> df]
    ELSE LET r == fix_float_column(dtype, df, df.cols[i])
         IN  fix_float_from(r.dtype, r.df, i + 1)

\* _fix_float_dtypes(dtype, df): returns the dict it was given, updated in place
fix_float_dtypes(dtype, df) == fix_float_from(dtype, df, 1)

CastOk(cell, dt) ==
    CASE dt = "Int64" -> Int64Ok(cell)
      [] dt \in {"Float64", "float64"} -> FloatOk(cell)
      [] OTHER -> TRUE

CastTo(cell, dt) ==
    CASE dt = "Int64" -> ToInt64(cell)
      [] dt \in {"Float64", "float64"} -> ToFloat(cell)
      [] OTHER -> ToText(cell)

\* a variant that never raises: the frame is handed back as it was read
astype_lenient(df, dtype) == [err |-> "none", dtype |-> dtype, df |-> df]

\* DataFrame.astype(dtype): every column cast to dtype[column]; a value the
\* target type cannot hold raises
astype(df, dtype) ==
    IF \A i \in DOMAIN df.rows : \A n \in ToSet(df.cols) : CastOk(df.rows[i].c[n], dtype[n])
    THEN [err |-> "none", dtype |-> dtype,
          df  |-> [cols  |-> df.cols,
                   dtype |-> [n \in ToSet(df.cols) |-> dtype[n]],
                   rows  |-> [i \in DOMAIN df.rows |->
                                [idx |-> df.rows[i].idx,
                                 c   |-> [n \in ToSet(df.cols) |->
                                            CastTo(df.rows[i].c[n], dtype[n])]]]]]
    ELSE [err |-> "ValueError", dtype |-> dtype, df |-> EmptyFrame]

\* df.astype(dtype) with f = [dtype, df] as _fix_float_dtypes left them
astype_fixed(f) == astype(f.df, f.dtype)

\* .astype(_fix_float_dtypes(dtype, df)) on d, the outcome of
\* _fix_decimal_expansion(df): skipped when that raised
decode_shifted(dtype, d) ==
    IF d.err # "none" THEN [err |-> d.err, dtype |-> dtype, df |-> EmptyFrame]
    ELSE astype_fixed(fix_float_dtypes(dtype, d.df))

\* _fix_decimal_expansion(df).astype(_fix_float_dtypes(dtype, df)) for one df;
\* dtype is the dict shared by every df of the call
decode_frame(descs, dtype, df) ==
    decode_shifted(dtype, fix_decimal_expansion(descs, df))

\* dtype = {desc.name: desc.pandas_type for desc in data_description}
default_dtype(descs) ==
    [n \in ToSet(NamesOf(descs)) |->
        pandas_type(CHOOSE d \in ToSet(descs) : d.name = n)]

string_dtype(descs) == [n \in ToSet(NamesOf(descs)) |-> "string"]

----------------------------------------------------------------------------
(* read_microdata *)

NoResult ==
    [op |-> "none", status |-> "none", frame |-> EmptyFrame, tables |-> <<>>,
     subset |-> NoSubset, as_dict |-> FALSE, opens |-> 0, warnings |-> {},
     dtype_passed |-> NoDtype, common_vars |-> <<>>]

\* what the call hands back given r, the outcome of decoding the one frame
read_result(subset, r) ==
    [NoResult EXCEPT !.op = "read_microdata",
                     !.status = IF r.err = "none" THEN "ok" ELSE r.err,
                     !.frame = r.df, !.subset = subset, !.opens = 1]

\* if dtype is None: dtype = {desc.name: desc.pandas_type for ...}; a dict the
\* caller passed is used as it is, the same object
dtype_of_call(descs, dtype) == IF dtype.given THEN dtype.map ELSE default_dtype(descs)

\* the one frame of _read_microdata(ddi, subset=subset, dtype=dtype): iterator
\* is False, so it holds every row of the file
read_frame(codebook, rows, subset, dtype) ==
    LET descs == select_descs(codebook, subset)
    IN  decode_frame(descs, dtype_of_call(descs, dtype),
                     read_fwf(descs, rows, 0, Len(rows)))

\* read_microdata(ddi, subset=subset, dtype=dtype)
read_microdata_dtype(codebook, rows, subset, dtype) ==
    IF codebook.structure = "hierarchical"
    THEN [NoResult EXCEPT !.op = "read_microdata", !.status = "NotImplementedError",
                          !.subset = subset, !.dtype_passed = dtype]
    ELSE [read_result(subset, read_frame(codebook, rows, subset, dtype))
             EXCEPT !.dtype_passed = dtype]

\* the dict object the caller passed, as the call leaves it: _fix_float_dtypes
\* assigns into the dict it is given
dtype_left(codebook, rows, subset, dtype) ==
    IF codebook.structure = "hierarchical" \/ ~dtype.given THEN dtype
    ELSE DtypeOf(read_frame(codebook, rows, subset, dtype).dtype)

\* read_microdata(ddi, subset=subset)
read_microdata(codebook, rows, subset) ==
    read_microdata_dtype(codebook, rows, subset, NoDtype)

----------------------------------------------------------------------------
(* _read_microdata, csv and parquet branches.  The data file of the model  *)
(* is the fixed-width one; the csv and parquet files of the same extract   *)
(* hold, for a numeric field, the number the fixed-width digits stand for  *)
(* (the implied decimals written out), and nothing for a blank field.      *)

Suffixes == {".dat", ".csv", ".parquet"}

\* the field is one a fixed-width extract can hold under desc: any text in a
\* character column, blank or digits in a numeric one (a decimal point only
\* where no decimals are implied)
WellFormedCell(desc, raw) ==
    \/ desc.vartype # "numeric"
    \/ raw = <<>>
    \/ IF needs_shift(desc) THEN IsIntText(raw) ELSE IsFloatText(raw)

\* the number a fixed-width numeric field stands for
number_of(desc, raw) ==
    IF needs_shift(desc) THEN FltV(IntOfText(raw), desc.shift) ELSE FloatOfText(raw)

IsNumberField(desc, raw) ==
    desc.vartype = "numeric" /\ raw # <<>> /\ WellFormedCell(desc, raw)

\* the csv field of the same value: decimals written out
csv_field(desc, raw) ==
    IF ~IsNumberField(desc, raw) THEN raw
    ELSE IF number_of(desc, raw).e = 0
    THEN (IF number_of(desc, raw).n < 0 THEN <<"-">> ELSE <<>>)
         \o NatText(IF number_of(desc, raw).n < 0 THEN -number_of(desc, raw).n
                    ELSE number_of(desc, raw).n)
    ELSE TextOfFloat(number_of(desc, raw))

\* the parquet value of the same field: a number, a string, or null
parquet_value(desc, raw) ==
    IF raw = <<>> THEN NA
    ELSE IF ~IsNumberField(desc, raw) THEN StrV(raw)
    ELSE IF number_of(desc, raw).e = 0 THEN IntV(number_of(desc, raw).n)
    ELSE number_of(desc, raw)

csv_file(descs, rows) ==
    [i \in DOMAIN rows |->
        [n \in ToSet(NamesOf(descs)) |->
            csv_field(CHOOSE d \in ToSet(descs) : d.name = n, rows[i][n])]]

\* {desc.name: desc.numpy_type for desc in data_description}
numpy_dtype(descs) ==
    [n \in ToSet(NamesOf(descs)) |->
        IF (CHOOSE d \in ToSet(descs) : d.name = n).vartype = "numeric"
        THEN "float64" ELSE "str"]

\* pd.read_csv(usecols=names, dtype=dtype): the fields of the named columns,
\* an empty field missing, each column parsed to its dtype; a field the dtype
\* cannot hold raises ValueError
read_csv(descs, rows, dtype) ==
    astype(read_fwf(descs, csv_file(descs, rows), 0, Len(rows)), dtype)

\* pd.read_parquet(columns=names): the stored values of the named columns
read_parquet(descs, rows) ==
    LET names == NamesOf(descs)
    IN  [cols  |-> names,
         dtype |-> [n \in ToSet(names) |-> "object"],
         rows  |-> [i \in DOMAIN rows |->
                      [idx |-> i - 1,
                       c   |-> [n \in ToSet(names) |->
                                  parquet_value(CHOOSE d \in ToSet(descs) : d.name = n,
                                                rows[i][n])]]]]

\* the csv branch given c, the outcome of read_csv: with dtype None the frame
\* goes through .astype(_fix_float_dtypes(pandas types, df)); with a dtype the
\* frame is yielded as read
csv_decoded(descs, dtype, c) ==
    IF c.err # "none" \/ dtype.given THEN c
    ELSE decode_shifted(default_dtype(descs), [err |-> "none", df |-> c.df])

\* the one frame of _read_microdata for a file of the given suffix
read_frame_file(codebook, rows, subset, dtype, suffix) ==
    LET descs == select_descs(codebook, subset)
    IN  CASE suffix = ".dat" -> read_frame(codebook, rows, subset, dtype)
          [] suffix = ".csv" ->
                csv_decoded(descs, dtype,
                            read_csv(descs, rows,
                                     IF dtype.given THEN dtype.map ELSE numpy_dtype(descs)))
          [] suffix = ".parquet" /\ ~dtype.given ->
                decode_shifted(default_dtype(descs),
                               [err |-> "none", df |-> read_parquet(descs, rows)])
          [] OTHER -> [err |-> "ValueError", dtype |-> dtype.map, df |-> EmptyFrame]

\* read_microdata(ddi, filename, subset=subset, dtype=dtype)
read_microdata_file(codebook, rows, subset, dtype, suffix) ==
    IF codebook.structure = "hierarchical"
    THEN [NoResult EXCEPT !.op = "read_microdata", !.status = "NotImplementedError",
                          !.subset = subset, !.dtype_passed = dtype]
    ELSE [read_result(subset, read_frame_file(codebook, rows, subset, dtype, suffix))
             EXCEPT !.dtype_passed = dtype]

\* the caller's dict after the call: only the fixed-width branch hands it to
\* _fix_float_dtypes
dtype_left_file(codebook, rows, subset, dtype, suffix) ==
    IF suffix = ".dat" THEN dtype_left(codebook, rows, subset, dtype) ELSE dtype

----------------------------------------------------------------------------
(* read_hierarchical_microdata *)

CountOf(x, seq) == Cardinality({i \in DOMAIN seq : seq[i] = x})

\* sorted(a) == sorted(b) for two lists of tokens
same_sorted(a, b) ==
    /\ Len(a) = Len(b)
    /\ \A x \in ToSet(a) \cup ToSet(b) : CountOf(x, a) = CountOf(x, b)

\* [desc for desc in data_description if desc.name == "RECTYPE"][0].rectype.split(" ");
\* a description's rectype attribute is held as its list of tokens
all_rectypes(descs) ==
    LET i == CHOOSE j \in DOMAIN descs :
                 /\ descs[j].name = "RECTYPE"
                 /\ \A k \in 1..(j - 1) : descs[k].name # "RECTYPE"
    IN  descs[i].rectype

\* a variant that compares the tokens as sets
get_common_vars_as_sets(descs) ==
    NamesOf(SelectSeq(descs, LAMBDA d : ToSet(d.rectype) = ToSet(all_rectypes(descs))))

\* _get_common_vars
get_common_vars(descs) ==
    NamesOf(SelectSeq(descs, LAMBDA d : same_sorted(d.rectype, all_rectypes(descs))))

\* a variant that appends no variable of the record type
get_rectype_vars_common_only(rectype, common_vars, descs) == common_vars

\* _get_rectype_vars: desc.rectype == rectype holds when the attribute is the
\* one token rectype
get_rectype_vars(rectype, common_vars, descs) ==
    common_vars \o NamesOf(SelectSeq(descs, LAMBDA d : d.rectype = <<rectype>>))

\* a variant that keeps every row
filter_rectype_keep_all(df, rectype) == df

\* rectype_df[rectype_df["RECTYPE"] == rectype].copy()
filter_rectype(df, rectype) ==
    [df EXCEPT !.rows = SelectSeq(df.rows, LAMBDA row : row.c["RECTYPE"] = StrV(rectype))]

\* lines 391-409 given r, the outcome of reading every row with the rectype's
\* variables as strings: keep the rows of the rectype, then give the columns
\* their types
rectype_rows(descs, rectype, rectype_vars, r) ==
    IF r.err # "none" THEN [err |-> r.err, df |-> EmptyFrame]
    ELSE astype_fixed(fix_float_dtypes(
             default_dtype(SelectSeq(descs, LAMBDA d : d.name \in ToSet(rectype_vars))),
             filter_rectype(r.df, rectype)))

\* one pass of the loop over all_rectypes (lines 366-409) for a rectype that
\* has variables of its own
rectype_table(codebook, rows, descs, rectype, rectype_vars) ==
    LET inner == select_descs(codebook, SubsetOf(rectype_vars))
    IN  rectype_rows(descs, rectype, rectype_vars,
                     decode_frame(inner, string_dtype(inner),
                                  read_fwf(inner, rows, 0, Len(rows))))

\* df_dict[rectype] = t.df, unless building t raised; acc is [err, tables,
\* opens], tables the items of df_dict in insertion order
add_table(acc, rectype, t) ==
    IF t.err # "none"
    THEN [err |-> t.err, tables |-> <<>>, opens |-> acc.opens + 1]
    ELSE [err |-> "none", tables |-> Append(acc.tables, [rt |-> rectype, df |-> t.df]),
          opens |-> acc.opens + 1]

\* for rectype in all_rectypes: ... ; the loop ends when a pass raises
RECURSIVE rectype_tables_from(_, _, _, _, _)
rectype_tables_from(codebook, rows, descs, i, acc) ==
    IF acc.err # "none" \/ i > Len(all_rectypes(descs)) THEN acc
    ELSE LET rectype == all_rectypes(descs)[i]
             common_vars == get_common_vars(descs)
             rectype_vars == get_rectype_vars(rectype, common_vars, descs)
         IN  IF rectype_vars = common_vars
             THEN rectype_tables_from(codebook, rows, descs, i + 1, acc)
             ELSE rectype_tables_from(codebook, rows, descs, i + 1,
                      add_table(acc, rectype,
                                rectype_table(codebook, rows, descs, rectype, rectype_vars)))

rectype_tables(codebook, rows, descs) ==
    rectype_tables_from(codebook, rows, descs, 1,
                        [err |-> "none", tables |-> <<>>, opens |-> 0])

\* np.where(df["RECTYPE"] == rectype, null, df[col])
where_rectype(df, rectype, name, null) ==
    [i \in DOMAIN df.rows |->
        IF df.rows[i].c["RECTYPE"] = StrV(rectype) THEN null ELSE df.rows[i].c[name]]

\* lines 451-477 for one column: the rows of rectype get the null of the
\* column's declared type and the column is cast; an Int64 column goes through
\* _fix_float_dtypes on a copy, which picks Int64 or Float64
nullify_column(df, rectype, name, declared) ==
    LET null == IF declared = "string" THEN StrV(<<>>) ELSE NA
        col == where_rectype(df, rectype, name, null)
        target == IF declared = "Int64" /\ ~(\A i \in DOMAIN col : Int64Ok(col[i]))
                  THEN "Float64" ELSE declared
    IN  IF \A i \in DOMAIN col : CastOk(col[i], target)
        THEN [err |-> "none",
              df  |-> SetColumn(df, name, [i \in DOMAIN col |-> CastTo(col[i], target)], target)]
        ELSE [err |-> "ValueError", df |-> df]

RECURSIVE nullify_columns(_, _, _, _, _)
nullify_columns(codebook, acc, rectype, cols, j) ==
    IF acc.err # "none" \/ j > Len(cols) THEN acc
    ELSE nullify_columns(codebook,
             nullify_column(acc.df, rectype, cols[j],
                 pandas_type(CHOOSE x \in ToSet(codebook.vars) : x.name = cols[j])),
             rectype, cols, j + 1)

RECURSIVE ColumnsOfOthers(_, _, _)
ColumnsOfOthers(tables, rectype, common_vars) ==
    IF tables = <<>> THEN <<>>
    ELSE (IF tables[1].rt = rectype THEN <<>>
          ELSE SelectSeq(tables[1].df.cols, LAMBDA c : c \notin ToSet(common_vars)))
         \o ColumnsOfOthers(Tail(tables), rectype, common_vars)

\* for rectype in df_dict.keys(): nullify the columns of the other tables;
\* acc is [err, df], the loop ends when a cast raises
RECURSIVE nullify_from(_, _, _, _, _)
nullify_from(codebook, acc, tables, common_vars, i) ==
    IF acc.err # "none" \/ i > Len(tables) THEN acc
    ELSE nullify_from(codebook,
             nullify_columns(codebook, acc, tables[i].rt,
                             ColumnsOfOthers(tables, tables[i].rt, common_vars), 1),
             tables, common_vars, i + 1)

\* lines 479-485: the common columns are cast to their declared pandas type
RECURSIVE cast_common(_, _, _, _)
cast_common(codebook, df, common_vars, j) ==
    IF j > Len(common_vars) THEN [err |-> "none", df |-> df]
    ELSE LET d == CHOOSE x \in ToSet(codebook.vars) : x.name = common_vars[j]
             col == Column(df, d.name)
             dt == pandas_type(d)
         IN  IF \A i \in DOMAIN col : CastOk(col[i], dt)
             THEN cast_common(codebook,
                      SetColumn(df, d.name, [i \in DOMAIN col |-> CastTo(col[i], dt)], dt),
                      common_vars, j + 1)
             ELSE [err |-> "ValueError", df |-> EmptyFrame]

\* lines 478-485 given n, the outcome of the nullifying loop
cast_nullified(codebook, descs, n) ==
    IF n.err # "none" THEN [err |-> n.err, df |-> EmptyFrame]
    ELSE cast_common(codebook, n.df, get_common_vars(descs), 1)

\* lines 430-485 given r, the outcome of reading every row as strings
nullify_read(codebook, descs, tables, r) ==
    IF r.err # "none" THEN [err |-> r.err, df |-> EmptyFrame]
    ELSE cast_nullified(codebook, descs,
             nullify_from(codebook, [err |-> "none", df |-> r.df], tables,
                          get_common_vars(descs), 1))

\* lines 414-487: the single data frame
unified_frame(codebook, rows, descs, tables) ==
    nullify_read(codebook, descs, tables,
                 decode_frame(descs, string_dtype(descs), read_fwf(descs, rows, 0, Len(rows))))

\* a variant in which the data file has been opened once more by the time
\* the exception leaves the call
raised_after_open(base, err, opens) == [base EXCEPT !.status = err, !.opens = opens + 1]

\* raise err: the call ends with the exception and returns nothing; the data
\* file has been opened `opens` times by then
raised(base, err, opens) == [base EXCEPT !.status = err, !.opens = opens]

\* return df, given u, the outcome of building the single data frame
unified_result(base, opens, u) ==
    IF u.err # "none" THEN raised(base, u.err, opens + 1)
    ELSE [base EXCEPT !.status = "ok", !.frame = u.df, !.opens = opens + 1]

\* lines 411-487 given p, the outcome of the loop over all_rectypes
hier_result(base, codebook, rows, descs, as_dict, p) ==
    IF p.err # "none" THEN raised(base, p.err, p.opens)
    ELSE IF as_dict
    THEN [base EXCEPT !.status = "ok", !.tables = p.tables, !.opens = p.opens]
    ELSE unified_result(base, p.opens, unified_frame(codebook, rows, descs, p.tables))

read_hierarchical_microdata(codebook, rows, subset, as_dict) ==
    LET base == [NoResult EXCEPT !.op = "read_hierarchical_microdata",
                                 !.subset = subset, !.as_dict = as_dict]
        descs == select_descs(codebook, subset)
    IN  IF subset.given /\ "RECTYPE" \notin ToSet(subset.names)
        THEN raised(base, "ValueError", 0)
        ELSE IF codebook.structure = "rectangular"
        THEN raised(base, "NotImplementedError", 0)
        ELSE hier_result(base, codebook, rows, descs, as_dict,
                         rectype_tables(codebook, rows, descs))

----------------------------------------------------------------------------
(* read_microdata_chunked: a generator over _read_microdata(iterator=True) *)

NoGen ==
    [state |-> "none", subset |-> NoSubset, chunksize |-> 0, pos |-> 0,
     dtype |-> <<>>, err |-> "none", open |-> FALSE, dtype_passed |-> NoDtype]

\* Inputs of the rectangular model
RawX == {<<>>, <<"0", "1", "2", "3", "4">>, <<"3", ".", "5">>, <<"a", "b">>}
RawY == {<<"7">>}
ShiftsX == {NoShift, 0, 2}

RectCodebooks ==
    {[structure |-> "rectangular",
      vars |-> << [name |-> "X", vartype |-> "numeric", shift |-> sx, rectype |-> << <<>> >>],
                  [name |-> "Y", vartype |-> vy, shift |-> NoShift, rectype |-> << <<>> >>] >>]
        : sx \in ShiftsX, vy \in {"numeric", "character"}}

RectRows == [{"X", "Y"} -> RawX \cup RawY]

RectFiles ==
    UNION {[1..n -> {r \in RectRows : r["X"] \in RawX /\ r["Y"] \in RawY}] : n \in 1..MaxRows}

RectSubsets == {NoSubset, SubsetOf(<<"X">>), SubsetOf(<<"Y", "X">>)}

InitRead ==
    /\ ddi \in RectCodebooks
    /\ file \in RectFiles
    /\ result = NoResult
    /\ gen = NoGen
    /\ chunks = <<>>
    /\ doc = NoDoc
    /\ parsed = NoParsed
    /\ dtype_arg = NoDtype
    /\ api = NoApi

GenIdle == gen.state \in {"none", "exhausted", "raised", "abandoned", "closed"}

\* the dtype dicts a caller passes with the selected columns: the codebook's
\* own types, or Int64 for every column
CallerDtypes(descs) ==
    {DtypeOf(default_dtype(descs)),
     DtypeOf([n \in ToSet(NamesOf(descs)) |-> "Int64"])}

\* df = read_microdata(ddi, filename, subset=subset, dtype=dtype), filename
\* the extract's file of the given suffix
ReadMicrodata(subset, dtype, suffix) ==
    /\ GenIdle
    /\ result' = read_microdata_file(ddi, file, subset, dtype, suffix)
    /\ dtype_arg' = dtype_left_file(ddi, file, subset, dtype, suffix)
    /\ gen' = NoGen
    /\ chunks' = <<>>
    /\ UNCHANGED <<api, ddi, file, doc, parsed>>

\* a variant that decodes the file when the iterator is created and raises
\* there what any chunk would raise
ReadMicrodataChunked_eager(subset, chunksize, dtype) ==
    /\ GenIdle
    /\ LET r == read_frame(ddi, file, subset, dtype)
       IN  gen' = [NoGen EXCEPT !.state = IF r.err # "none" THEN "raised" ELSE "created",
                               !.err = r.err, !.subset = subset,
                               !.chunksize = chunksize, !.dtype_passed = dtype]
    /\ dtype_arg' = dtype
    /\ chunks' = <<>>
    /\ result' = NoResult
    /\ UNCHANGED <<api, ddi, file, doc, parsed>>

\* it = read_microdata_chunked(ddi, filename, subset=subset, chunksize=chunksize,
\* dtype=dtype): a generator function, so nothing of its body runs yet
ReadMicrodataChunked(subset, chunksize, dtype) ==
    /\ GenIdle
    /\ gen' = [NoGen EXCEPT !.state = "created", !.subset = subset,
                            !.chunksize = chunksize, !.dtype_passed = dtype]
    /\ dtype_arg' = dtype
    /\ chunks' = <<>>
    /\ result' = NoResult
    /\ UNCHANGED <<api, ddi, file, doc, parsed>>

\* next(it): the first call runs the body up to the with block (the file is
\* opened, the dtype dict is built once); every call then takes the next
\* chunksize rows from the reader and decodes them with the shared dtype dict
GenNext ==
    /\ gen.state \in {"created", "running"}
    /\ LET descs == select_descs(ddi, gen.subset)
           dtype == IF gen.state = "created" THEN dtype_of_call(descs, gen.dtype_passed)
                    ELSE gen.dtype
           to == IF gen.pos + gen.chunksize > Len(file) THEN Len(file)
                 ELSE gen.pos + gen.chunksize
           r == decode_frame(descs, dtype, read_fwf(descs, file, gen.pos, to))
       IN  IF gen.pos >= Len(file)
           THEN /\ gen' = [gen EXCEPT !.state = "exhausted", !.dtype = dtype, !.open = FALSE]
                /\ UNCHANGED <<chunks, dtype_arg>>
           ELSE IF r.err # "none"
           THEN /\ gen' = [gen EXCEPT !.state = "raised", !.err = r.err,
                                      !.dtype = r.dtype, !.open = FALSE]
                /\ dtype_arg' = IF dtype_arg.given THEN DtypeOf(r.dtype) ELSE dtype_arg
                /\ UNCHANGED chunks
           ELSE /\ gen' = [gen EXCEPT !.state = "running", !.pos = to,
                                      !.dtype = r.dtype, !.open = TRUE]
                /\ dtype_arg' = IF dtype_arg.given THEN DtypeOf(r.dtype) ELSE dtype_arg
                /\ chunks' = Append(chunks, r.df)
    /\ UNCHANGED <<api, ddi, file, result, doc, parsed>>

\* the caller stops iterating and keeps the iterator: the generator stays
\* suspended at its yield, inside the with block
GenAbandon ==
    /\ gen.state \in {"created", "running"}
    /\ gen' = [gen EXCEPT !.state = "abandoned"]
    /\ UNCHANGED <<api, ddi, file, result, chunks, doc, parsed, dtype_arg>>

\* it.close(), or the finalizer of a dropped iterator when the interpreter
\* collects it: GeneratorExit unwinds the with block
GenClose ==
    /\ gen.state \in {"created", "running", "abandoned"}
    /\ gen' = [gen EXCEPT !.state = "closed", !.open = FALSE]
    /\ UNCHANGED <<api, ddi, file, result, chunks, doc, parsed, dtype_arg>>

NextRead ==
    \/ \E s \in RectSubsets : ReadMicrodata(s, NoDtype, ".dat")
    \/ \E s \in RectSubsets, n \in 1..MaxChunk : ReadMicrodataChunked(s, n, NoDtype)
    \/ GenNext
    \/ GenAbandon
    \/ GenClose

SpecRead == InitRead /\ [][NextRead]_vars

\* the same calls with a dtype argument
NextDtype ==
    \/ \E s \in RectSubsets : \E d \in CallerDtypes(select_descs(ddi, s)) :
            \E f \in Suffixes : ReadMicrodata(s, d, f)
    \/ \E s \in RectSubsets, n \in 1..MaxChunk :
            \E d \in CallerDtypes(select_descs(ddi, s)) : ReadMicrodataChunked(s, n, d)
    \/ GenNext
    \/ GenAbandon
    \/ GenClose

SpecDtype == InitRead /\ [][NextDtype]_vars

\* the extract in its three formats: files every field of which is well formed
WellFormed(codebook, rows) ==
    \A i \in DOMAIN rows : \A j \in DOMAIN codebook.vars :
        WellFormedCell(codebook.vars[j], rows[i][codebook.vars[j].name])

InitFormat ==
    /\ ddi \in RectCodebooks
    /\ file \in RectFiles
    /\ WellFormed(ddi, file)
    /\ result = NoResult
    /\ gen = NoGen
    /\ chunks = <<>>
    /\ doc = NoDoc
    /\ parsed = NoParsed
    /\ dtype_arg = NoDtype
    /\ api = NoApi

NextFormat ==
    \E s \in RectSubsets, f \in Suffixes : ReadMicrodata(s, NoDtype, f)

SpecFormat == InitFormat /\ [][NextFormat]_vars

----------------------------------------------------------------------------
(* The hierarchical model: record types H and P; RECTYPE and A are common, B
   and C belong to one record type, to both, or to a record type the file
   does not declare *)

RawB == {<<>>, <<"7">>, <<"a", "b">>}
RawC == {<<>>, <<"1", "5">>}
\* record type tags, as text
RtH == <<"H">>
RtP == <<"P">>
RtX == <<"X">>

\* rectype attributes, each the list of its space-separated tags
RectypesB == {<<RtH>>, <<RtP, RtH>>, <<RtX>>}
RectypesC == {<<RtP>>, <<RtH>>}

HierCodebooks ==
    {[structure |-> "hierarchical",
      vars |-> << [name |-> "RECTYPE", vartype |-> "character", shift |-> NoShift,
                   rectype |-> <<RtH, RtP>>],
                  [name |-> "A", vartype |-> "numeric", shift |-> NoShift,
                   rectype |-> <<RtH, RtP>>],
                  [name |-> "B", vartype |-> vb, shift |-> NoShift, rectype |-> rb],
                  [name |-> "C", vartype |-> "numeric", shift |-> sc, rectype |-> rc] >>]
        : vb \in {"numeric", "character"}, rb \in RectypesB,
          sc \in {NoShift, 1}, rc \in RectypesC}

\* the rows of a hierarchical file: a row holds a whole number in B and
\* nothing in C, or a value in C next to a blank or (under record type H)
\* non-numeric B, so that each column meets its values under both record types
HierRows ==
    {r \in [RECTYPE : {RtH, RtP}, A : {<<"7">>}, B : RawB, C : RawC] :
        /\ (r.B = <<"7">>) = (r.C = <<>>)
        /\ r.B = <<"a", "b">> => r.RECTYPE = RtH}

HierFiles == UNION {[1..n -> HierRows] : n \in 1..MaxHierRows}

HierSubsets ==
    {NoSubset, SubsetOf(<<"RECTYPE", "B">>), SubsetOf(<<"C", "A", "RECTYPE">>),
     SubsetOf(<<"A", "B">>)}

InitHier ==
    /\ ddi \in HierCodebooks
    /\ file \in HierFiles
    /\ result = NoResult
    /\ gen = NoGen
    /\ chunks = <<>>
    /\ doc = NoDoc
    /\ parsed = NoParsed
    /\ dtype_arg = NoDtype
    /\ api = NoApi

\* data = read_hierarchical_microdata(ddi, filename, subset=subset, as_dict=as_dict)
ReadHierarchicalMicrodata(subset, as_dict) ==
    /\ GenIdle
    /\ result' = read_hierarchical_microdata(ddi, file, subset, as_dict)
    /\ gen' = NoGen
    /\ chunks' = <<>>
    /\ UNCHANGED <<api, ddi, file, doc, parsed, dtype_arg>>

NextHier ==
    \/ \E s \in HierSubsets, d \in BOOLEAN : ReadHierarchicalMicrodata(s, d)
    \/ \E s \in HierSubsets : ReadMicrodata(s, NoDtype, ".dat")

SpecHier == InitHier /\ [][NextHier]_vars

----------------------------------------------------------------------------
(* Codebook construction as a state machine *)

VarNames == <<"V1", "V2", "V3", "V4">>

StartPosTexts == {<<"1">>, <<"3">>}
EndPosTexts == {<<"2">>, <<"4">>}
DcmlTexts == {<<"0">>, <<"2">>, <<"-", "2">>, <<"x">>}

XmlVars(name) ==
    {[name |-> name, StartPos |-> s, EndPos |-> e, has_dcml |-> TRUE, dcml |-> d] :
        s \in StartPosTexts, e \in EndPosTexts, d \in DcmlTexts}
    \cup {[name |-> name, StartPos |-> s, EndPos |-> e, has_dcml |-> FALSE,
           dcml |-> <<>>] : s \in StartPosTexts, e \in EndPosTexts}

YamlVars(name) ==
    {[name |-> name, start_column |-> s, width |-> w, implied_decimals |-> d] :
        s \in {1, 3}, w \in {1, 2}, d \in {0, 2}}

\* the sequences of n variables, the i-th named VarNames[i]
RECURSIVE XmlVarSeqsOfLen(_)
XmlVarSeqsOfLen(n) ==
    IF n = 0 THEN {<<>>}
    ELSE {Append(vs, v) : vs \in XmlVarSeqsOfLen(n - 1), v \in XmlVars(VarNames[n])}

RECURSIVE YamlVarSeqsOfLen(_)
YamlVarSeqsOfLen(n) ==
    IF n = 0 THEN {<<>>}
    ELSE {Append(vs, v) : vs \in YamlVarSeqsOfLen(n - 1), v \in YamlVars(VarNames[n])}

XmlVarSeqs == UNION {XmlVarSeqsOfLen(n) : n \in 1..MaxVars}

YamlVarSeqs == UNION {YamlVarSeqsOfLen(n) : n \in 1..MaxVars}

Docs ==
    {[kind |-> "ddi", file_txts |-> k, vars |-> vs] : k \in 0..2, vs \in XmlVarSeqs}
    \cup {[kind |-> k, file_txts |-> 0, vars |-> vs] :
            k \in {"noextract", "yrbss"}, vs \in YamlVarSeqs}

InitDdi ==
    /\ ddi = NoCodebook
    /\ file = <<>>
    /\ result = NoResult
    /\ gen = NoGen
    /\ chunks = <<>>
    /\ doc \in Docs
    /\ parsed = NoParsed
    /\ dtype_arg = NoDtype
    /\ api = NoApi

\* ddi = Codebook.read(root, namespace), as read_ipums_ddi calls it
CodebookRead ==
    /\ doc.kind = "ddi"
    /\ parsed' = Codebook_read(doc)
    /\ UNCHANGED <<api, ddi, file, result, gen, chunks, doc, dtype_arg>>

\* ddi = read_noextract_codebook(collection)
ReadNoextractCodebook ==
    /\ doc.kind = "noextract"
    /\ parsed' = read_noextract_codebook(doc)
    /\ UNCHANGED <<api, ddi, file, result, gen, chunks, doc, dtype_arg>>

\* the module-level codebook = __read_codebook() of yrbss.py
ReadYrbssCodebook ==
    /\ doc.kind = "yrbss"
    /\ parsed' = yrbss_read_codebook(doc)
    /\ UNCHANGED <<api, ddi, file, result, gen, chunks, doc, dtype_arg>>

NextDdi ==
    \/ CodebookRead
    \/ ReadNoextractCodebook
    \/ ReadYrbssCodebook

SpecDdi == InitDdi /\ [][NextDdi]_vars

----------------------------------------------------------------------------
(* _get_common_vars as a state machine: codebooks whose file description   *)
(* carries its own list of record types next to the variables' attributes  *)

TokensRECTYPE == {<<RtH, RtP>>, <<RtP, RtH>>}
TokensA == {<<RtH, RtP>>, <<RtP, RtH>>, <<RtH, RtH, RtP>>, <<RtH>>, <<RtP>>, <<>>}
TokensB == {<<RtH, RtP>>, <<RtP, RtH>>, <<RtP, RtH, RtP>>, <<RtH>>, <<RtX>>,
            <<RtH, RtP, RtX>>}
FileRectypes == {<<RtH, RtP>>, <<RtH, RtP, RtX>>}

CommonCodebooks ==
    {[structure |-> "hierarchical", rectypes |-> fr,
      vars |-> << [name |-> "RECTYPE", vartype |-> "character", shift |-> NoShift,
                   rectype |-> tr],
                  [name |-> "A", vartype |-> "numeric", shift |-> NoShift, rectype |-> ta],
                  [name |-> "B", vartype |-> "numeric", shift |-> NoShift, rectype |-> tb] >>]
        : fr \in FileRectypes, tr \in TokensRECTYPE, ta \in TokensA, tb \in TokensB}

InitCommon ==
    /\ ddi \in CommonCodebooks
    /\ file = <<>>
    /\ result = NoResult
    /\ gen = NoGen
    /\ chunks = <<>>
    /\ doc = NoDoc
    /\ parsed = NoParsed
    /\ dtype_arg = NoDtype
    /\ api = NoApi

\* common_vars = _get_common_vars(ddi, data_description)
GetCommonVars ==
    /\ result' = [NoResult EXCEPT !.op = "_get_common_vars",
                                  !.common_vars = get_common_vars(ddi.vars)]
    /\ UNCHANGED <<api, ddi, file, gen, chunks, doc, parsed, dtype_arg>>

NextCommon == GetCommonVars

SpecCommon == InitCommon /\ [][NextCommon]_vars

----------------------------------------------------------------------------
(* pandas.concat of the yielded frames, as the caller of the chunked reader
   builds it: rows in order, each column at the common type of its parts *)

common_dtype(dts) ==
    IF Cardinality(dts) = 1 THEN CHOOSE d \in dts : TRUE
    ELSE IF dts \subseteq {"Int64", "Float64"} THEN "Float64"
    ELSE "object"

RECURSIVE FlattenRows(_)
FlattenRows(frames) ==
    IF frames = <<>> THEN <<>>
    ELSE frames[1].rows \o FlattenRows(Tail(frames))

concat(frames) ==
    LET cols == frames[1].cols
        dt == [n \in ToSet(cols) |-> common_dtype({frames[i].dtype[n] : i \in DOMAIN frames})]
        rows == FlattenRows(frames)
    IN  [cols  |-> cols,
         dtype |-> dt,
         rows  |-> [i \in DOMAIN rows |->
                      [idx |-> rows[i].idx,
                       c   |-> [n \in ToSet(cols) |->
                                  IF dt[n] = "object" THEN rows[i].c[n]
                                  ELSE CastTo(rows[i].c[n], dt[n])]]]]

----------------------------------------------------------------------------
(* Claims *)

GenEnded == gen.state \in {"exhausted", "raised"}

\* C1: whenever read_microdata returns a frame for a codebook, file and subset,
\* a chunked read of the same input runs to exhaustion and the concatenation of
\* its chunks is that frame: same rows, same order, same value in every column.
C1_ChunkedEqualsSingle ==
    GenEnded =>
        LET single == read_microdata(ddi, file, gen.subset)
        IN  single.status = "ok" =>
                /\ gen.state = "exhausted"
                /\ concat(chunks) = single.frame

\* C2: every chunk one chunked call yields has the same type in each column.
C2_ChunksShareTypes ==
    \A i, j \in DOMAIN chunks : chunks[i].dtype = chunks[j].dtype

DescOf(name) == CHOOSE d \in ToSet(ddi.vars) : d.name = name

\* the text of the file behind a decoded row
RawOf(row, name) == file[row.idx + 1][name]

ReadReturned == result.op = "read_microdata" /\ result.status = "ok"

\* the frames the rectangular reader has handed to its caller
Delivered ==
    (IF ReadReturned THEN {result.frame} ELSE {}) \cup ToSet(chunks)

Unparsable(raw) == raw # <<>> /\ ~IsFloatText(raw)

HierReturned == result.op = "read_hierarchical_microdata" /\ result.status = "ok"

\* the record types the codebook declares: the tags of RECTYPE's rectype
DeclaredRectypes == ToSet(DescOf("RECTYPE").rectype)

\* the record-type set of a column
RectypeSet(name) == ToSet(DescOf(name).rectype)

IsCommon(name) == RectypeSet(name) = DeclaredRectypes

OwnedBy(name, t) == DescOf(name).rectype = <<t>>

SelectedNames(subset) == ToSet(NamesOf(select_descs(ddi, subset)))

NullOf(name) == IF pandas_type(DescOf(name)) = "string" THEN StrV(<<>>) ELSE NA

IsNull(cell) == cell = NA \/ cell = StrV(<<>>)

\* C3: in the one table read_hierarchical_microdata returns with
\* as_dict=False, a non-common column holds the null of its type in every row
\* whose RECTYPE is not in the column's record-type set, and every other cell
\* whose field is not blank holds a non-null value.
C3_UnifiedNulls ==
    (HierReturned /\ ~result.as_dict) =>
        \A i \in DOMAIN result.frame.rows : \A n \in ToSet(result.frame.cols) :
            LET row == result.frame.rows[i]
            IN  IF ~IsCommon(n) /\ RawOf(row, "RECTYPE") \notin RectypeSet(n)
                THEN row.c[n] = NullOf(n)
                ELSE RawOf(row, n) # <<>> => ~IsNull(row.c[n])

TableKeys == {result.tables[i].rt : i \in DOMAIN result.tables}

HasOwnColumn(t, subset) == \E n \in SelectedNames(subset) : OwnedBy(n, t)

\* the file rows of record type t
RowsOf(t) == {i \in DOMAIN file : file[i]["RECTYPE"] = t}

IndexOf(df) == [i \in DOMAIN df.rows |-> df.rows[i].idx]

\* the positions, from 0, of the file rows of record type t, in file order
PositionsOf(t) ==
    SelectSeq([i \in 1..Len(file) |-> i - 1], LAMBDA k : file[k + 1]["RECTYPE"] = t)

\* C5: with as_dict=True the table of record type t holds exactly the file
\* rows whose RECTYPE is t, in file order, and exactly the selected columns
\* that are common or owned by t.
C5_PartitionExact ==
    (HierReturned /\ result.as_dict) =>
        \A i \in DOMAIN result.tables :
            LET t == result.tables[i].rt
                df == result.tables[i].df
            IN  /\ IndexOf(df) = PositionsOf(t)
                /\ \A j \in DOMAIN df.rows : df.rows[j].c["RECTYPE"] = StrV(t)
                /\ ToSet(df.cols) = {n \in SelectedNames(result.subset) :
                                        IsCommon(n) \/ OwnedBy(n, t)}
                /\ Len(df.cols) = Cardinality(ToSet(df.cols))

C5_Witness ==
    /\ HierReturned /\ result.as_dict
    /\ \E i \in DOMAIN result.tables :
          LET t == result.tables[i].rt
          IN  /\ Len(result.tables[i].df.rows) = 1
              /\ Len(file) = 2
              /\ \E n \in SelectedNames(result.subset) :
                    ~IsCommon(n) /\ ~OwnedBy(n, t) /\ n \notin ToSet(result.tables[i].df.cols)

NoRectypeInSubset ==
    /\ result.op = "read_hierarchical_microdata"
    /\ result.subset.given
    /\ "RECTYPE" \notin ToSet(result.subset.names)

\* C6: read_hierarchical_microdata called with a subset that lacks RECTYPE
\* raises before the data file is opened and returns no table.
C6_SubsetNeedsRectype ==
    NoRectypeInSubset =>
        /\ result.status = "ValueError"
        /\ result.opens = 0
        /\ result.frame = EmptyFrame
        /\ result.tables = <<>>

C6_Witness == NoRectypeInSubset /\ result.status = "ValueError"

\* the value x the cell holds satisfies x * 10^s = n
IsScaled(cell, n, s) == cell.k = "flt" /\ cell.n * Pow10(s) = n * Pow10(cell.e)

IsUnscaled(cell, n) ==
    \/ cell.k = "int" /\ cell.n = n
    \/ cell.k = "flt" /\ cell.n = n * Pow10(cell.e)

\* C7: in every delivered frame, a cell of a column with shift s > 0 whose text
\* parses as the integer n is n / 10^s, and a cell of a numeric column with
\* shift absent or 0 is n itself; shift 2 and text "01234" give 12.34.
C7_DecimalShift ==
    \A df \in Delivered : \A i \in DOMAIN df.rows : \A c \in ToSet(df.cols) :
        LET raw == RawOf(df.rows[i], c)
            cell == df.rows[i].c[c]
            d == DescOf(c)
        IN  (d.vartype = "numeric" /\ IsIntText(raw)) =>
                /\ needs_shift(d) => IsScaled(cell, IntOfText(raw), d.shift)
                /\ ~needs_shift(d) => IsUnscaled(cell, IntOfText(raw))
                /\ (d.shift = 2 /\ raw = <<"0", "1", "2", "3", "4">>) =>
                       cell = [k |-> "flt", s |-> <<>>, n |-> 1234, e |-> 2]

C7_Witness ==
    /\ ReadReturned
    /\ \E i \in DOMAIN result.frame.rows :
          /\ "X" \in ToSet(result.frame.cols)
          /\ DescOf("X").shift = 2
          /\ RawOf(result.frame.rows[i], "X") = <<"0", "1", "2", "3", "4">>
          /\ result.frame.rows[i].c["X"].k = "flt"

\* C8: after read_microdata on a file whose shift column holds text that is
\* not a number, the call has returned a frame and that cell is missing.
C8_GarbageDecodesMissing ==
    result.op = "read_microdata" =>
        \A i \in DOMAIN file : \A d \in ToSet(select_descs(ddi, result.subset)) :
            (needs_shift(d) /\ Unparsable(file[i][d.name])) =>
                /\ result.status = "ok"
                /\ Len(result.frame.rows) = Len(file)
                /\ result.frame.rows[i].c[d.name] = NA

IntColumns(subset) ==
    {d \in ToSet(select_descs(ddi, subset)) : d.vartype = "numeric" /\ ~needs_shift(d)}

AllIntText(name) == \A i \in DOMAIN file : file[i][name] = <<>> \/ IsIntText(file[i][name])

\* C9: in the frame read_microdata returns, a numeric column with shift absent
\* or 0 is nullable integer when every value is missing or integer text, and is
\* nullable float in every row as soon as one value is not.
C9_IntOrFloat ==
    ReadReturned =>
        \A d \in IntColumns(result.subset) : \A i \in DOMAIN result.frame.rows :
            LET raw == RawOf(result.frame.rows[i], d.name)
                cell == result.frame.rows[i].c[d.name]
            IN  /\ result.frame.dtype[d.name] =
                       (IF AllIntText(d.name) THEN "Int64" ELSE "Float64")
                /\ raw = <<>> => cell = NA
                /\ (raw # <<>> /\ AllIntText(d.name)) => cell = IntV(IntOfText(raw))
                /\ (raw # <<>> /\ ~AllIntText(d.name)) =>
                       /\ cell.k = "flt"
                       /\ IsIntText(raw) => (cell.e = 0 /\ cell.n = IntOfText(raw))
                       /\ raw = <<"3", ".", "5">> => (cell.n = 35 /\ cell.e = 1)

C9_Witness ==
    /\ ReadReturned
    /\ "X" \in ToSet(result.frame.cols)
    /\ result.frame.dtype["X"] = "Float64"
    /\ \E i, j \in DOMAIN file :
          /\ file[i]["X"] = <<"0", "1", "2", "3", "4">>
          /\ file[j]["X"] = <<"3", ".", "5">>

HasUncastable(subset) ==
    \E d \in IntColumns(subset) : \E i \in DOMAIN file : Unparsable(file[i][d.name])

----------------------------------------------------------------------------
(* Claims about building a codebook *)

ParseRaised == parsed.op # "none" /\ parsed.status # "ok"
ParseReturned == parsed.op # "none" /\ parsed.status = "ok"

\* C11: parsing a DDI document that does not hold exactly one file-description
\* block raises NotImplementedError before any file or variable description is
\* built, and no Codebook comes back
C11_OneFileTxtOrNothing ==
    (parsed.op = "Codebook.read" /\ doc.file_txts # 1) =>
        /\ parsed.status = "NotImplementedError"
        /\ parsed.built = 0
        /\ parsed.codebook = NoCodebook

C11_Witness ==
    /\ parsed.op = "Codebook.read"
    /\ doc.file_txts = 2
    /\ Len(doc.vars) = 2
    /\ \A i \in DOMAIN doc.vars : var_read_ok(doc.vars[i])

\* the field width a document declares for its i-th variable: the 1-based
\* inclusive extent StartPos..EndPos of a DDI var, the width of a YAML one
DeclaredStart(i) ==
    IF doc.kind = "ddi" THEN IntOfText(doc.vars[i].StartPos)
    ELSE doc.vars[i].start_column

DeclaredWidth(i) ==
    IF doc.kind = "ddi"
    THEN IntOfText(doc.vars[i].EndPos) - IntOfText(doc.vars[i].StartPos) + 1
    ELSE doc.vars[i].width

\* C12: every VariableDescription a codebook constructor builds has
\* start = declared 1-based start - 1 and end - start = declared field width
C12_StartAndWidth ==
    ParseReturned =>
        \A i \in DOMAIN parsed.codebook.vars :
            /\ parsed.codebook.vars[i].start = DeclaredStart(i) - 1
            /\ parsed.codebook.vars[i].end - parsed.codebook.vars[i].start
                 = DeclaredWidth(i)

\* C13: every VariableDescription of a Codebook the parser returns has
\* start < end and, when it has a shift, shift >= 0
C13_ExtentAndShiftValid ==
    (ParseReturned /\ parsed.op = "Codebook.read") =>
        \A i \in DOMAIN parsed.codebook.vars :
            /\ parsed.codebook.vars[i].start < parsed.codebook.vars[i].end
            /\ parsed.codebook.vars[i].shift # NoShift =>
                   parsed.codebook.vars[i].shift >= 0

----------------------------------------------------------------------------
(* Claims about chunked decoding and column selection *)

\* the decode of the chunk the generator would read next, with its dtype dict
NextChunkEnd ==
    IF gen.pos + gen.chunksize > Len(file) THEN Len(file) ELSE gen.pos + gen.chunksize

NextChunkErr ==
    LET descs == select_descs(ddi, gen.subset)
        dtype == IF gen.state = "created" THEN dtype_of_call(descs, gen.dtype_passed)
                 ELSE gen.dtype
    IN  decode_frame(descs, dtype, read_fwf(descs, file, gen.pos, NextChunkEnd)).err

GenLive == gen.state \in {"created", "running"}

C14_RaiseStep ==
    (gen'.state = "raised" /\ gen.state # "raised") =>
        /\ GenLive
        /\ gen.pos < Len(file)
        /\ gen'.err = NextChunkErr
        /\ Len(chunks) * gen.chunksize = gen.pos
        /\ chunks' = chunks

C14_CreateStep ==
    (gen' # gen /\ ~GenLive /\ gen'.state \notin {"none", "closed"}) =>
        /\ gen'.state = "created"
        /\ gen'.err = "none"
        /\ chunks' = <<>>

C14_DeliverStep ==
    (GenLive /\ chunks' # chunks) =>
        /\ gen'.state = "running"
        /\ Len(chunks') = Len(chunks) + 1
        /\ SubSeq(chunks', 1, Len(chunks)) = chunks

\* C14: in a chunked decode the error chunk k causes is raised only by the
\* request for chunk k: calling read_microdata_chunked raises nothing, every
\* chunk before k has been delivered and stays as delivered, and the raising
\* request delivers nothing
C14_ErrorsAtRequest ==
    [][C14_RaiseStep /\ C14_CreateStep /\ C14_DeliverStep]_vars

C14_Witness ==
    /\ gen.state = "raised"
    /\ Len(chunks) >= 1
    /\ Len(chunks) * gen.chunksize = gen.pos

InSubset(subset, name) == \E i \in DOMAIN subset.names : subset.names[i] = name

\* the codebook's variable names that a subset list names, in codebook order
ExpectedColumns(subset) ==
    SelectSeq(NamesOf(ddi.vars), LAMBDA n : InSubset(subset, n))

\* C17: with a column subset the decoded table (every frame of a chunked
\* decode too) has exactly the codebook variables the subset names, in
\* codebook order whatever the order of the subset list, and no other column
C17_SubsetColumns ==
    /\ (ReadReturned /\ result.subset.given) =>
           result.frame.cols = ExpectedColumns(result.subset)
    /\ gen.subset.given =>
           \A i \in DOMAIN chunks : chunks[i].cols = ExpectedColumns(gen.subset)

C17_Witness ==
    /\ ReadReturned
    /\ result.subset = SubsetOf(<<"Y", "X">>)
    /\ result.frame.cols = <<"X", "Y">>
    /\ Len(result.frame.rows) >= 1

----------------------------------------------------------------------------
(* Claims about the common columns *)

CommonReturned == result.op = "_get_common_vars"

\* b is a of another order: some bijection of positions carries a onto b
IsReordering(a, b) ==
    /\ Len(a) = Len(b)
    /\ \E p \in [DOMAIN a -> DOMAIN a] :
          /\ \A i, j \in DOMAIN a : p[i] = p[j] => i = j
          /\ \A i \in DOMAIN a : b[i] = a[p[i]]

RectypeTokens == (CHOOSE d \in ToSet(ddi.vars) : d.name = "RECTYPE").rectype

\* C16 as stated: the common columns are the variables whose record_type
\* tokens, as a set, equal the file description's declared record types
C16_CommonIsFileSet ==
    CommonReturned =>
        ToSet(result.common_vars) =
            {d.name : d \in {e \in ToSet(ddi.vars) :
                                ToSet(e.rectype) = ToSet(ddi.rectypes)}}

\* C16 as the code has it: the common columns are, in codebook order, the
\* variables whose record_type token list is a reordering of the token list
\* of the RECTYPE variable's own record_type attribute
C16_CommonIsRectypeTokens ==
    CommonReturned =>
        result.common_vars =
            NamesOf(SelectSeq(ddi.vars, LAMBDA d : IsReordering(d.rectype, RectypeTokens)))

C16_Witness ==
    /\ CommonReturned
    /\ RectypeTokens = <<RtH, RtP>>
    /\ ddi.rectypes = <<RtH, RtP, RtX>>
    /\ ddi.vars[2].rectype = <<RtP, RtH>>
    /\ ddi.vars[3].rectype = <<RtP, RtH, RtP>>
    /\ result.common_vars = <<"RECTYPE", "A">>

----------------------------------------------------------------------------
(* Claims about columns of no record type *)

\* a column whose record-type set is neither the declared set nor one
\* declared record type
IsDrift(name) ==
    /\ ~IsCommon(name)
    /\ ~\E t \in DeclaredRectypes : OwnedBy(name, t)

\* C15: a column whose record_type token set is neither the full declared set
\* nor exactly one declared record type is in no partition table, is null in
\* every row of the unified table, and is reported by a warning, not an error
C15_DriftColumnDropped ==
    HierReturned =>
        \A n \in SelectedNames(result.subset) : IsDrift(n) =>
            /\ \A i \in DOMAIN result.tables : n \notin ToSet(result.tables[i].df.cols)
            /\ ~result.as_dict =>
                  \A i \in DOMAIN result.frame.rows : IsNull(result.frame.rows[i].c[n])
            /\ result.warnings # {}

----------------------------------------------------------------------------
(* Claims about what a decode call leaves behind *)

\* C18: a decode call, whether it returned, raised or was abandoned part-way
\* through its chunks, leaves the dtype mapping the caller passed as it was
\* (the codebook, the file and the subset list are changed by no action)
C18_ArgumentsUnchanged ==
    /\ result.op = "read_microdata" => dtype_arg = result.dtype_passed
    /\ gen.state # "none" => dtype_arg = gen.dtype_passed

\* C19: the data source a decode opened is released on every exit path: once
\* the last chunk is consumed, once a decode error is raised, and once the
\* caller has abandoned the iteration
C19_ReleasedOnEveryExit ==
    gen.state \in {"exhausted", "raised", "abandoned", "closed"} => ~gen.open

----------------------------------------------------------------------------
(* Claims about the file formats *)

\* what a caller sees of a call: how it ended and the table it returned
OutcomeOf(r) == <<r.status, r.frame.cols, r.frame.dtype,
                  [i \in DOMAIN r.frame.rows |-> r.frame.rows[i].c]>>

\* C20: for the same codebook and logical data read_microdata returns the
\* same table, values and column types, from the .dat, the .csv and the
\* .parquet file; the decimal shift is applied to the fixed-width file only
C20_FormatsAgree ==
    (result.op = "read_microdata" /\ ~result.dtype_passed.given /\ WellFormed(ddi, file)) =>
        \A f \in Suffixes :
            OutcomeOf(read_microdata_file(ddi, file, result.subset, NoDtype, f))
                = OutcomeOf(result)

----------------------------------------------------------------------------
(* The declared types of a codebook's variables, as a state machine: a     *)
(* codebook of up to MaxVars variables of every kind and shift, asked for   *)
(* its types in every format.                                               *)

TypeNames == <<"V1", "V2", "V3", "V4">>

TypeShifts == {NoShift, 0, 1, 2}

TypeKinds == {[vartype |-> k, shift |-> sh] : k \in {"numeric", "character"}, sh \in TypeShifts}

TypeCodebooks ==
    {[structure |-> "rectangular",
      vars |-> [i \in 1..n |-> [name |-> TypeNames[i], vartype |-> ks[i].vartype,
                                shift |-> ks[i].shift, rectype |-> << <<>> >>]]]
        : n \in 1..MaxVars, ks \in [1..MaxVars -> TypeKinds]}

InitTypes ==
    /\ ddi \in TypeCodebooks
    /\ file = <<>>
    /\ result = NoResult
    /\ gen = NoGen
    /\ chunks = <<>>
    /\ doc = NoDoc
    /\ parsed = NoParsed
    /\ dtype_arg = NoDtype
    /\ api = NoApi

\* ddi.get_all_types(type_format, string_pyarrow)
GetAllTypes(type_format, string_pyarrow) ==
    /\ parsed' = get_all_types(ddi, type_format, string_pyarrow)
    /\ UNCHANGED <<api, ddi, file, result, gen, chunks, doc, dtype_arg>>

NextTypes ==
    \E type_format \in TypeFormats \cup {"r_type"}, string_pyarrow \in BOOLEAN :
        GetAllTypes(type_format, string_pyarrow)

SpecTypes == InitTypes /\ [][NextTypes]_vars

----------------------------------------------------------------------------
(* Claims about the declared types *)

\* the type the kind and the shift of a variable call for, in each format
DeclaredType(type_format, vartype, shift) ==
    LET shifted == shift # NoShift /\ shift > 0
    IN  CASE type_format = "pandas_type" ->
                IF vartype = "character" THEN "string"
                ELSE IF shifted THEN "float64" ELSE "Int64"
          [] type_format = "python_type" ->
                IF vartype = "character" THEN "str"
                ELSE IF shifted THEN "float" ELSE "int"
          [] type_format = "numpy_type" ->
                IF vartype = "character" THEN "str" ELSE "float64"
          [] type_format = "pandas_type_efficient" ->
                IF vartype = "character" THEN "string" ELSE "float64"
          [] type_format = "vartype" -> vartype

\* C21: the type a variable declares depends only on its kind and its shift:
\* pandas_type is string for a character variable, nullable integer for a
\* numeric one without shift or with shift 0 and float for a numeric one with
\* a positive shift; numpy_type and pandas_type_efficient are float64 for
\* every numeric variable whatever the shift; python_type is str, int, float.
C21_TypeByKindAndShift ==
    (parsed.op = "get_all_types" /\ parsed.status = "ok" /\ ~parsed.string_pyarrow) =>
        \A i \in DOMAIN ddi.vars :
            parsed.types[ddi.vars[i].name] =
                DeclaredType(parsed.type_format, ddi.vars[i].vartype, ddi.vars[i].shift)

C21_Witness ==
    /\ parsed.op = "get_all_types" /\ parsed.status = "ok" /\ ~parsed.string_pyarrow
    /\ parsed.type_format = "pandas_type"
    /\ \E i, j \in DOMAIN ddi.vars :
            /\ ddi.vars[i].vartype = "numeric" /\ ddi.vars[i].shift = 2
            /\ parsed.types[ddi.vars[i].name] = "float64"
            /\ ddi.vars[j].vartype = "numeric" /\ ddi.vars[j].shift = NoShift
            /\ parsed.types[ddi.vars[j].name] = "Int64"

----------------------------------------------------------------------------
(* api/core.py: IpumsApiClient.request under retry_on_transient_error.  One *)
(* attempt is one call of the undecorated request; the session answers it   *)
(* with a response [code, body] or raises.  The body of an error response   *)
(* is JSON with a "detail" key, JSON with an "error" key, JSON with neither *)
(* or no JSON at all; the body of a successful one carries the status of    *)
(* the extract.                                                             *)

MaxRetries == 3

StatusCodes == {200, 400, 401, 403, 404, 500}

ErrorBodies == {"detail", "error", "other", "not_json"}

Statuses == {"queued", "started", "completed", "failed"}

Responses ==
    {[kind |-> "response", code |-> 200, body |-> st] : st \in Statuses}
    \cup {[kind |-> "response", code |-> c, body |-> b] : c \in StatusCodes \ {200}, b \in ErrorBodies}
    \cup {[kind |-> "raise", code |-> 0, body |-> e] : e \in {"ConnectionError", "Timeout"}}

\* the classes of api/exceptions.py, each with its base class
IpumsApiExceptions ==
    {"IpumsApiException", "TransientIpumsApiException", "IpumsExtractFailure",
     "IpumsNotFound", "IpumsExtractNotReady", "IpumsTimeoutException",
     "IpumsAPIAuthenticationError", "BadIpumsApiRequest"}

\* response.json()[key] inside the HTTPError handler: the exception it raises,
\* or "none"
json_key_error(body, key) ==
    IF body = "not_json" THEN "JSONDecodeError"
    ELSE IF body = key THEN "none" ELSE "KeyError"

\* one call of the undecorated IpumsApiClient.request: what it returns
\* (exc = "none") or the exception that leaves it.  An exception raised inside
\* the HTTPError handler is not caught by the "except Exception" next to it.
request_once(resp) ==
    IF resp.kind = "raise" THEN [exc |-> "IpumsApiException", value |-> "none"]
    ELSE IF resp.code < 400 THEN [exc |-> "none", value |-> resp.body]
    ELSE IF resp.code = 400
    THEN IF json_key_error(resp.body, "detail") = "none"
         THEN [exc |-> "BadIpumsApiRequest", value |-> "none"]
         ELSE [exc |-> json_key_error(resp.body, "detail"), value |-> "none"]
    ELSE IF resp.code \in {401, 403}
    THEN IF json_key_error(resp.body, "error") = "none"
         THEN [exc |-> "IpumsAPIAuthenticationError", value |-> "none"]
         ELSE IF json_key_error(resp.body, "error") = "KeyError"
         THEN IF json_key_error(resp.body, "detail") = "none"
              THEN [exc |-> "IpumsAPIAuthenticationError", value |-> "none"]
              ELSE [exc |-> json_key_error(resp.body, "detail"), value |-> "none"]
         ELSE [exc |-> "JSONDecodeError", value |-> "none"]
    ELSE IF resp.code = 404 THEN [exc |-> "IpumsNotFound", value |-> "none"]
    ELSE IF json_key_error(resp.body, "detail") = "none"
         THEN [exc |-> "IpumsApiException", value |-> "none"]
         ELSE [exc |-> json_key_error(resp.body, "detail"), value |-> "none"]

\* what the caller of the decorated request makes of its outcome:
\* extract_status turns IpumsNotFound into "not found" and a response into
\* its status; get and post hand the outcome on
caller_outcome(op, out) ==
    IF op = "extract_status" /\ out.exc = "IpumsNotFound"
    THEN [exc |-> "none", value |-> "not found"]
    ELSE out

\* the decorator retrying after every exception, not only a transient one
retry_on_any_error(call, out) ==
    IF call.left > 0 /\ out.exc # "none"
    THEN [call EXCEPT !.attempts = @ + 1, !.left = @ - 1, !.last = out.exc]
    ELSE [call EXCEPT !.attempts = @ + 1, !.left = 0,
                      !.state = IF caller_outcome(call.op, out).exc = "none"
                                THEN "returned" ELSE "raised",
                      !.exc = caller_outcome(call.op, out).exc,
                      !.value = caller_outcome(call.op, out).value,
                      !.last = out.exc]

\* retry_on_transient_error: inside the loop of num_retries - 1 rounds a
\* TransientIpumsApiException is swallowed and the next round starts; a
\* return or any other exception leaves the wrapper; after the loop one more
\* call is made whose outcome leaves the wrapper as it is
retry_on_transient_error(call, out) ==
    IF call.left > 0 /\ out.exc = "TransientIpumsApiException"
    THEN [call EXCEPT !.attempts = @ + 1, !.left = @ - 1, !.last = out.exc]
    ELSE [call EXCEPT !.attempts = @ + 1, !.left = 0,
                      !.state = IF caller_outcome(call.op, out).exc = "none"
                                THEN "returned" ELSE "raised",
                      !.exc = caller_outcome(call.op, out).exc,
                      !.value = caller_outcome(call.op, out).value,
                      !.last = out.exc]

\* range(self.num_retries - 1): the number of rounds of the loop
loop_rounds(num_retries) == IF num_retries - 1 > 0 THEN num_retries - 1 ELSE 0

InitRequest ==
    /\ ddi = NoCodebook
    /\ file = <<>>
    /\ result = NoResult
    /\ gen = NoGen
    /\ chunks = <<>>
    /\ doc = NoDoc
    /\ parsed = NoParsed
    /\ dtype_arg = NoDtype
    /\ api = NoApi

\* IpumsApiClient(api_key, num_retries=num_retries).get(...) / .post(...) /
\* .extract_status(...): the wrapper is entered
RequestCall(op, num_retries) ==
    /\ api.state # "running"
    /\ api' = [op |-> op, state |-> "running", num_retries |-> num_retries,
               attempts |-> 0, left |-> loop_rounds(num_retries),
               exc |-> "none", value |-> "none", last |-> "none", resp |-> <<>>]
    /\ UNCHANGED reader_vars

\* one attempt: the session answers with resp
RequestAttempt(resp) ==
    /\ api.op # "none" /\ api.state = "running"
    /\ api' = [retry_on_transient_error(api, request_once(resp)) EXCEPT !.resp = resp]
    /\ UNCHANGED reader_vars

NextRequest ==
    \/ \E op \in {"get", "post", "extract_status"}, n \in 0..MaxRetries : RequestCall(op, n)
    \/ \E resp \in Responses : RequestAttempt(resp)

SpecRequest == InitRequest /\ [][NextRequest]_vars

----------------------------------------------------------------------------
(* api/core.py: download_extract.  The download directory exists or not;    *)
(* the session answers the status request and the request for the extract's *)
(* definition; downloadLinks holds some of the keys; of the files asked for *)
(* the first `fetched` download before a download fails.                    *)

LinkNames == {"data", "ddiCodebook", "stataCommandFile"}

\* IpumsApiClient.extract_status answered by resp: the status returned, or
\* the exception that leaves it
extract_status(resp) == caller_outcome("extract_status", request_once(resp))

\* download_urls: data, codebook, then the command file asked for
download_urls(stata_command_file) ==
    IF stata_command_file THEN <<"data", "ddiCodebook", "stataCommandFile">>
    ELSE <<"data", "ddiCodebook">>

\* the outcome of the loop over download_urls: the files written, and the
\* exception of the download that failed
download_files(urls, fetched) ==
    [exc |-> IF fetched >= Len(urls) THEN "none" ELSE "IpumsApiException",
     written |-> {urls[i] : i \in {j \in DOMAIN urls : j <= fetched}}]

\* download_extract without the test of the status
download_extract_any_status(dir_exists, status, definition, links, stata_command_file, fetched) ==
    IF ~dir_exists THEN [exc |-> "FileNotFoundError", written |-> {}]
    ELSE IF status.exc # "none" THEN [exc |-> status.exc, written |-> {}]
    ELSE IF definition.exc # "none" THEN [exc |-> definition.exc, written |-> {}]
    ELSE IF ~(ToSet(download_urls(stata_command_file)) \subseteq links)
    THEN [exc |-> "IpumsExtractNotReady", written |-> {}]
    ELSE download_files(download_urls(stata_command_file), fetched)

\* IpumsApiClient.download_extract: the directory, then the status, then the
\* links are tested, and only then is anything fetched and written
download_extract(dir_exists, status, definition, links, stata_command_file, fetched) ==
    IF ~dir_exists THEN [exc |-> "FileNotFoundError", written |-> {}]
    ELSE IF status.exc # "none" THEN [exc |-> status.exc, written |-> {}]
    ELSE IF status.value = "not found" THEN [exc |-> "IpumsNotFound", written |-> {}]
    ELSE IF status.value = "failed" THEN [exc |-> "IpumsExtractFailure", written |-> {}]
    ELSE IF status.value # "completed" THEN [exc |-> "IpumsExtractNotReady", written |-> {}]
    ELSE IF definition.exc # "none" THEN [exc |-> definition.exc, written |-> {}]
    ELSE IF ~(ToSet(download_urls(stata_command_file)) \subseteq links)
    THEN [exc |-> "IpumsExtractNotReady", written |-> {}]
    ELSE download_files(download_urls(stata_command_file), fetched)

InitDownload == InitRequest

\* what extract_status can return or raise, and what the request for the
\* extract's definition can
StatusOutcomes == {extract_status(resp) : resp \in Responses}

DefinitionOutcomes == {request_once(resp) : resp \in Responses}

\* api_client.download_extract(extract_id, collection, download_dir,
\* stata_command_file=...)
DownloadExtract(dir_exists, status, definition, links, stata_command_file, fetched) ==
    /\ api.state = "idle"
    /\ LET out == download_extract(dir_exists, status, definition,
                                   links, stata_command_file, fetched)
       IN  api' = [op |-> "download_extract",
                   state |-> IF out.exc = "none" THEN "returned" ELSE "raised",
                   exc |-> out.exc, written |-> out.written,
                   dir_exists |-> dir_exists, status |-> status,
                   definition |-> definition.exc, links |-> links,
                   stata_command_file |-> stata_command_file]
    /\ UNCHANGED reader_vars

NextDownload ==
    \E dir_exists \in BOOLEAN, status \in StatusOutcomes, definition \in DefinitionOutcomes,
       links \in SUBSET LinkNames, stata_command_file \in BOOLEAN,
       fetched \in 0..Cardinality(LinkNames) :
        DownloadExtract(dir_exists, status, definition, links, stata_command_file, fetched)

SpecDownload == InitDownload /\ [][NextDownload]_vars

----------------------------------------------------------------------------
(* api/core.py: wait_for_extract.  A call is [inital_wait_time,             *)
(* max_wait_time, timeout] and the loop's locals wait_time and total_time;  *)
(* pauses holds the last two sleeps, last_status the status polled last,    *)
(* polls the number of polls made, counted modulo 2.                        *)

MaxWait == 2
MaxTimeout == 4

WaitTimes == 0..MaxWait
Timeouts == 0..MaxTimeout

\* the last two of the sleeps made so far
last_two(pauses, p) == IF pauses = <<>> THEN <<p>> ELSE <<pauses[Len(pauses)], p>>

min(a, b) == IF a <= b THEN a ELSE b
max(a, b) == IF a >= b THEN a ELSE b

\* one round of the loop, with total_time left as it was after the sleep
wait_step_no_clock(call, out) ==
    IF call.total_time >= call.timeout
    THEN [call EXCEPT !.state = "raised", !.exc = "IpumsTimeoutException"]
    ELSE IF out.exc # "none"
    THEN [call EXCEPT !.state = "raised", !.exc = out.exc, !.polls = 1 - @]
    ELSE IF out.value = "failed"
    THEN [call EXCEPT !.state = "raised", !.exc = "IpumsExtractFailure",
                      !.last_status = out.value, !.polls = 1 - @]
    ELSE IF out.value = "not found"
    THEN [call EXCEPT !.state = "raised", !.exc = "IpumsNotFound",
                      !.last_status = out.value, !.polls = 1 - @]
    ELSE IF out.value # "completed"
    THEN [call EXCEPT !.last_status = out.value, !.polls = 1 - @,
                      !.pauses = last_two(@, call.wait_time),
                      !.wait_time = min(call.wait_time * 2, call.max_wait_time)]
    ELSE [call EXCEPT !.state = "returned", !.last_status = out.value, !.polls = 1 - @]

\* one round of the loop of wait_for_extract: the timeout test, the poll, and
\* what follows from the status
wait_step(call, out) ==
    IF call.total_time >= call.timeout
    THEN [call EXCEPT !.state = "raised", !.exc = "IpumsTimeoutException"]
    ELSE IF out.exc # "none"
    THEN [call EXCEPT !.state = "raised", !.exc = out.exc, !.polls = 1 - @]
    ELSE IF out.value = "failed"
    THEN [call EXCEPT !.state = "raised", !.exc = "IpumsExtractFailure",
                      !.last_status = out.value, !.polls = 1 - @]
    ELSE IF out.value = "not found"
    THEN [call EXCEPT !.state = "raised", !.exc = "IpumsNotFound",
                      !.last_status = out.value, !.polls = 1 - @]
    ELSE IF out.value # "completed"
    THEN [call EXCEPT !.last_status = out.value, !.polls = 1 - @,
                      !.pauses = last_two(@, call.wait_time),
                      !.total_time = @ + call.wait_time,
                      !.wait_time = min(call.wait_time * 2, call.max_wait_time)]
    ELSE [call EXCEPT !.state = "returned", !.last_status = out.value, !.polls = 1 - @]

\* api_client.wait_for_extract(extract_id, collection, inital_wait_time,
\* max_wait_time, timeout): the locals before the loop
WaitForExtract(inital_wait_time, max_wait_time, timeout) ==
    /\ api.state # "running" /\ api.state # "downloading"
    /\ api' = [op |-> "wait_for_extract", state |-> "running",
               inital_wait_time |-> inital_wait_time, max_wait_time |-> max_wait_time,
               timeout |-> timeout, wait_time |-> inital_wait_time, total_time |-> 0,
               pauses |-> <<>>, last_status |-> "none", polls |-> 0, exc |-> "none"]
    /\ UNCHANGED reader_vars

\* one round of the loop
WaitPoll ==
    /\ api.op = "wait_for_extract" /\ api.state = "running"
    /\ \E out \in StatusOutcomes : api' = wait_step(api, out)
    /\ UNCHANGED reader_vars

NextWait ==
    \/ \E w \in WaitTimes, m \in WaitTimes, t \in Timeouts : WaitForExtract(w, m, t)
    \/ WaitPoll

SpecWait == InitRequest /\ [][NextWait]_vars

\* the loop keeps running: once entered, a round is eventually made
SpecWaitFair == SpecWait /\ WF_vars(WaitPoll)

----------------------------------------------------------------------------
(* cli.py: ipums api submit-and-download.  From the command line click      *)
(* calls the function with the keyword of each option; called directly the  *)
(* function submits the extract, runs its own waiting loop and downloads.   *)

\* --timeout not given
NoTimeout == -1

\* the model follows the loop while total_time is below this
MaxTotal == 8

\* the names click derives from the options of the command
CliOptionNames ==
    {"extract", "api_key", "output_dir", "num_retries", "initial_wait_time",
     "max_wait_time", "timeout"}

\* the parameters of ipums_api_submit_and_download
CliParameters ==
    {"extract", "api_key", "output_dir", "num_retries", "inital_wait_time",
     "max_wait_time", "timeout"}

\* one round of the loop of the command: the timeout test, the poll, and what
\* follows from the status
cli_step(call, out) ==
    IF call.timeout # NoTimeout /\ call.timeout # 0 /\ call.total_time >= call.timeout
    THEN [call EXCEPT !.state = "exited", !.exc = "SystemExit"]
    ELSE IF out.exc # "none"
    THEN [call EXCEPT !.state = "raised", !.exc = out.exc, !.polls = 1 - @]
    ELSE IF out.value # "completed"
    THEN [call EXCEPT !.last_status = out.value, !.polls = 1 - @,
                      !.pauses = last_two(@, call.wait_time),
                      !.total_time = @ + call.wait_time,
                      !.wait_time = max(call.wait_time * 2, call.max_wait_time)]
    ELSE [call EXCEPT !.state = "downloading", !.last_status = out.value, !.polls = 1 - @]

\* what download_extract(extract, download_dir=output_dir) can come to
DownloadOutcomes ==
    {download_extract(d, st, df, l, FALSE, k) :
        d \in BOOLEAN, st \in StatusOutcomes, df \in DefinitionOutcomes,
        l \in SUBSET LinkNames, k \in 0..2}

\* ipums api submit-and-download EXTRACT --initial-wait-time ... : click
\* passes every option under its own name, and the function has no
\* parameter of the name initial_wait_time
CliInvoke(inital_wait_time, max_wait_time, timeout) ==
    /\ api.state # "running" /\ api.state # "downloading"
    /\ api' = [op |-> "submit_and_download", via |-> "command line",
               state |-> IF CliOptionNames \subseteq CliParameters THEN "running" ELSE "raised",
               inital_wait_time |-> inital_wait_time, max_wait_time |-> max_wait_time,
               timeout |-> timeout, wait_time |-> inital_wait_time, total_time |-> 0,
               pauses |-> <<>>, last_status |-> "none", polls |-> 0,
               exc |-> IF CliOptionNames \subseteq CliParameters THEN "none" ELSE "TypeError",
               written |-> {}]
    /\ UNCHANGED reader_vars

\* ipums_api_submit_and_download.callback(extract, api_key, output_dir,
\* num_retries, inital_wait_time, max_wait_time, timeout): the extract is
\* submitted and the loop's locals are set
CliCall(inital_wait_time, max_wait_time, timeout, submitted) ==
    /\ api.state # "running" /\ api.state # "downloading"
    /\ api' = [op |-> "submit_and_download", via |-> "callback",
               state |-> IF submitted.exc = "none" THEN "running" ELSE "raised",
               inital_wait_time |-> inital_wait_time, max_wait_time |-> max_wait_time,
               timeout |-> timeout, wait_time |-> inital_wait_time, total_time |-> 0,
               pauses |-> <<>>, last_status |-> "none", polls |-> 0,
               exc |-> submitted.exc, written |-> {}]
    /\ UNCHANGED reader_vars

\* one round of the loop
CliPoll ==
    /\ api.op = "submit_and_download" /\ api.state = "running"
    /\ api.total_time < MaxTotal
    /\ \E out \in StatusOutcomes : api' = cli_step(api, out)
    /\ UNCHANGED reader_vars

\* api_client.download_extract(extract, download_dir=output_dir) after the loop
CliDownload ==
    /\ api.op = "submit_and_download" /\ api.state = "downloading"
    /\ \E out \in DownloadOutcomes :
            api' = [api EXCEPT !.state = IF out.exc = "none" THEN "returned" ELSE "raised",
                               !.exc = out.exc, !.written = out.written]
    /\ UNCHANGED reader_vars

NextCli ==
    \/ \E w \in WaitTimes, m \in WaitTimes, t \in Timeouts \cup {NoTimeout} : CliInvoke(w, m, t)
    \/ \E w \in WaitTimes, m \in WaitTimes, t \in Timeouts \cup {NoTimeout},
          submitted \in DefinitionOutcomes : CliCall(w, m, t, submitted)
    \/ CliPoll
    \/ CliDownload

SpecCli == InitRequest /\ [][NextCli]_vars

\* both waiting loops
NextPoll == NextWait \/ NextCli

SpecPoll == InitRequest /\ [][NextPoll]_vars

----------------------------------------------------------------------------
(* api/extract.py: the extract object.  A dict is the sequence of its items *)
(* [key, value] in insertion order, a key a text, a value an integer or a   *)
(* nested dict.  The object keeps _id, _info and kwargs; the model also      *)
(* keeps the kwargs it was given and the outcome of the last call on it.    *)

MaxKwargs == 2
MaxNumber == 2

\* _id = None, which "not self._id" does not tell from 0
NoId == 0

NoInfo == [number |-> NoId]

IntVal(n) == [is_dict |-> FALSE, n |-> n, items |-> <<>>]
DictVal(items) == [is_dict |-> TRUE, n |-> 0, items |-> items]

KeysOf(items) == [i \in DOMAIN items |-> items[i].key]

\* d[key]
getitem(items, key) == items[CHOOSE i \in DOMAIN items : items[i].key = key].value

\* d[key] = value: the value of an existing key is replaced where it stands,
\* a new key is appended
setitem(items, key, value) ==
    IF key \in ToSet(KeysOf(items))
    THEN [i \in DOMAIN items |->
            IF items[i].key = key THEN [key |-> key, value |-> value] ELSE items[i]]
    ELSE Append(items, [key |-> key, value |-> value])

\* d.pop(key)
pop(items, key) == SelectSeq(items, LAMBDA it : it.key # key)

\* str.upper and str.lower of one character
upper(c) == CASE c = "a" -> "A" [] c = "b" -> "B" [] OTHER -> c
lower(c) == CASE c = "A" -> "a" [] c = "B" -> "b" [] OTHER -> c

\* str.capitalize
capitalize(text) ==
    [i \in DOMAIN text |-> IF i = 1 THEN upper(text[i]) ELSE lower(text[i])]

\* key.split("_")
RECURSIVE split(_)
split(text) ==
    IF \A i \in DOMAIN text : text[i] # "_" THEN <<text>>
    ELSE LET at == CHOOSE i \in DOMAIN text :
                        text[i] = "_" /\ \A j \in 1..(i - 1) : text[j] # "_"
         IN  <<SubSeq(text, 1, at - 1)>> \o split(SubSeq(text, at + 1, Len(text)))

RECURSIVE join_capitalized(_)
join_capitalized(parts) ==
    IF parts = <<>> THEN <<>> ELSE capitalize(Head(parts)) \o join_capitalized(Tail(parts))

\* camel_key: the first part as it is, the other parts capitalized
camel_key(key) == Head(split(key)) \o join_capitalized(Tail(split(key)))

RECURSIVE snake_to_camel_keys(_, _)

\* the loop of _snake_to_camel over list(kwarg_dict.keys()): a nested dict is
\* converted first, then kwarg_dict[camel_key] = kwarg_dict[key] and
\* kwarg_dict.pop(key)
snake_to_camel_keys(items, keys) ==
    IF keys = <<>> THEN items
    ELSE LET key == Head(keys)
             old == getitem(items, key)
             value == IF old.is_dict
                      THEN DictVal(snake_to_camel_keys(old.items, KeysOf(old.items)))
                      ELSE old
         IN  snake_to_camel_keys(pop(setitem(items, camel_key(key), value), key), Tail(keys))

\* BaseExtract._snake_to_camel(kwarg_dict)
snake_to_camel(items) == snake_to_camel_keys(items, KeysOf(items))

\* build(): the fields of the extract and **self.kwargs
build(extract) == [collection_type |-> extract.kind, kwargs |-> extract.kwargs]

\* BaseExtract.extract_id
extract_id(extract) ==
    IF extract._id = NoId THEN [exc |-> "ValueError", value |-> NoId]
    ELSE [exc |-> "none", value |-> extract._id]

\* BaseExtract.extract_info
extract_info(extract) ==
    IF extract._info = NoInfo THEN [exc |-> "IpumsExtractNotSubmitted", value |-> NoInfo]
    ELSE [exc |-> "none", value |-> extract._info]

\* extract_to_dict(extract): extract_info's exception leaves it, as it is or
\* raised again from the handler of ValueError
extract_to_dict(extract) ==
    IF extract_info(extract).exc # "none"
    THEN [exc |-> "IpumsExtractNotSubmitted", value |-> NoInfo]
    ELSE extract_info(extract)

\* submit_extract keeping the object as it was
submit_extract_without_id(extract, posted, number) == extract

\* submit_extract(extract): after a successful post, _id and _info are set
\* from the response
submit_extract(extract, posted, number) ==
    IF posted.exc # "none" THEN extract
    ELSE [extract EXCEPT !._id = number, !._info = [number |-> number]]

KwargKeys == {<<"a">>, <<"a", "_", "b">>, <<"a", "B">>}

KwargValues ==
    {IntVal(1)} \cup {DictVal(<< [key |-> k, value |-> IntVal(2)] >>) : k \in KwargKeys}

RECURSIVE KwargsOfLen(_)
KwargsOfLen(n) ==
    IF n = 0 THEN {<<>>}
    ELSE {Append(d, [key |-> k, value |-> v]) :
            d \in KwargsOfLen(n - 1), k \in KwargKeys, v \in KwargValues}

Kwargs ==
    {d \in UNION {KwargsOfLen(n) : n \in 0..MaxKwargs} :
        \A i, j \in DOMAIN d : d[i].key = d[j].key => i = j}

\* the number the API gives an extract: a user's extracts are numbered from 1
ExtractNumbers == 1..MaxNumber

\* MicrodataExtract(collection, samples, variables, **kwargs) or
\* AggregateDataExtract(collection, ..., **kwargs)
NewExtract(kind, kwargs) ==
    /\ api.state = "idle"
    /\ api' = [op |-> "extract", state |-> "returned", kind |-> kind,
               given |-> kwargs, kwargs |-> snake_to_camel(kwargs),
               _id |-> NoId, _info |-> NoInfo,
               call |-> "__init__", exc |-> "none", value |-> NoId, number |-> NoId]
    /\ UNCHANGED reader_vars

\* extract.extract_id, extract.extract_info, extract_to_dict(extract) or
\* extract.build()
ExtractCall(call) ==
    /\ api.op = "extract"
    /\ LET out == CASE call = "extract_id" -> extract_id(api)
                     [] call = "extract_info" -> extract_info(api)
                     [] call = "extract_to_dict" -> extract_to_dict(api)
                     [] call = "build" -> [exc |-> "none", value |-> build(api)]
       IN  api' = [api EXCEPT !.call = call, !.exc = out.exc, !.value = out.value,
                              !.state = IF out.exc = "none" THEN "returned" ELSE "raised"]
    /\ UNCHANGED reader_vars

\* api_client.submit_extract(extract): the post is answered by resp, a
\* successful answer carrying the number
SubmitExtract(resp, number) ==
    /\ api.op = "extract"
    /\ LET posted == request_once(resp)
       IN  api' = [submit_extract(api, posted, number) EXCEPT
                        !.call = "submit_extract", !.exc = posted.exc, !.value = NoId,
                        !.state = IF posted.exc = "none" THEN "returned" ELSE "raised",
                        !.number = IF posted.exc = "none" THEN number ELSE @]
    /\ UNCHANGED reader_vars

NextExtract ==
    \/ \E kind \in {"microdata", "aggregate_data"}, kwargs \in Kwargs : NewExtract(kind, kwargs)
    \/ \E call \in {"extract_id", "extract_info", "extract_to_dict", "build"} : ExtractCall(call)
    \/ \E resp \in Responses, number \in ExtractNumbers : SubmitExtract(resp, number)

SpecExtract == InitRequest /\ [][NextExtract]_vars

----------------------------------------------------------------------------
(* Claims about the API client's requests *)

RequestOps == {"get", "post", "extract_status"}

AttemptsAllowed(num_retries) == IF num_retries > 1 THEN num_retries ELSE 1

ExceptionByStatus(resp) ==
    IF resp.kind = "raise" THEN "IpumsApiException"
    ELSE IF resp.code = 400 THEN "BadIpumsApiRequest"
    ELSE IF resp.code \in {401, 403} THEN "IpumsAPIAuthenticationError"
    ELSE IF resp.code = 404 THEN "IpumsNotFound"
    ELSE "IpumsApiException"

\* C27: every failure of request surfaces as an IpumsApiException chosen by
\* the HTTP status (400 BadIpumsApiRequest, 401/403
\* IpumsAPIAuthenticationError, 404 IpumsNotFound, anything else
\* IpumsApiException), and extract_status returns "not found" for
\* IpumsNotFound.
C27_FailuresAreApiExceptions ==
    (api.op \in RequestOps /\ api.state # "running") =>
        /\ api.state = "raised" =>
                /\ api.exc \in IpumsApiExceptions
                /\ api.exc = ExceptionByStatus(api.resp)
        /\ (api.op = "extract_status" /\ api.resp.kind = "response" /\ api.resp.code = 404) =>
                (api.state = "returned" /\ api.value = "not found")

\* a request whose failure left it as an exception of another family
C27_ForeignException ==
    /\ api.op \in RequestOps /\ api.state = "raised"
    /\ api.exc \notin IpumsApiExceptions

----------------------------------------------------------------------------
(* Claims about downloading *)

\* the exception C25 names for the first test that fails, when both requests
\* were answered
DownloadRefusal(call) ==
    IF ~call.dir_exists THEN "FileNotFoundError"
    ELSE IF call.status.value = "not found" THEN "IpumsNotFound"
    ELSE IF call.status.value = "failed" THEN "IpumsExtractFailure"
    ELSE "IpumsExtractNotReady"

DownloadAllowed(call) ==
    /\ call.dir_exists
    /\ call.status.exc = "none" /\ call.status.value = "completed"
    /\ call.definition = "none"
    /\ {"data", "ddiCodebook"} \subseteq call.links

\* C25: download_extract writes a file only if the download directory
\* exists, the status is "completed" and the data and codebook links are
\* present; in every other case it raises and writes nothing:
\* FileNotFoundError for a missing directory, IpumsNotFound for "not found",
\* IpumsExtractFailure for "failed", IpumsExtractNotReady for any other status
\* and for an extract without links.
C25_WritesOnlyWhenReady ==
    api.op = "download_extract" =>
        /\ api.written # {} => DownloadAllowed(api)
        /\ ~DownloadAllowed(api) =>
                /\ api.state = "raised" /\ api.written = {}
                /\ (~api.dir_exists \/ (api.status.exc = "none" /\ api.definition = "none"))
                        => api.exc = DownloadRefusal(api)

C25_Witness ==
    /\ api.op = "download_extract" /\ api.dir_exists
    /\ api.status.exc = "none" /\ api.status.value = "completed"
    /\ api.definition = "none" /\ api.links = {}
    /\ api.exc = "IpumsExtractNotReady" /\ api.written = {}

C25_WitnessWritten ==
    /\ api.op = "download_extract" /\ api.state = "returned"
    /\ api.written = {"data", "ddiCodebook"}

----------------------------------------------------------------------------
(* Claims about waiting for an extract *)

Waiting == api.op = "wait_for_extract" /\ api.state = "running"

\* how a finished wait_for_extract relates to the last poll and the clock
WaitOutcomeMatches ==
    (api.op = "wait_for_extract" /\ api.state # "running") =>
        /\ api.state = "returned" <=> api.last_status = "completed"
        /\ api.exc = "IpumsExtractFailure" <=> api.last_status = "failed"
        /\ api.exc = "IpumsNotFound" <=> api.last_status = "not found"
        /\ api.exc = "IpumsTimeoutException" => api.total_time >= api.timeout

C24_PauseDoublesUpToMax ==
    api.op \in {"wait_for_extract", "submit_and_download"} =>
        /\ \A i \in DOMAIN api.pauses : api.pauses[i] <= api.max_wait_time
        /\ Len(api.pauses) = 1 => api.pauses[1] = api.inital_wait_time
        /\ Len(api.pauses) = 2 =>
                api.pauses[2] = min(2 * api.pauses[1], api.max_wait_time)

\* the command's loop pausing longer than max_wait_time although it started
\* below it
C24_CliPauseAboveMax ==
    /\ api.op = "submit_and_download" /\ api.inital_wait_time <= api.max_wait_time
    /\ \E i \in DOMAIN api.pauses : api.pauses[i] > api.max_wait_time

\* C30: the command stops waiting once the extract reaches a terminal
\* status: after "completed" it goes on to download, after "failed" or
\* "not found" it ends with an error, whether a timeout was given or not.
C30_StopsAtTerminalStatus ==
    api.op = "submit_and_download" =>
        /\ api.last_status = "completed" => api.state \in {"downloading", "returned", "raised"}
        /\ api.last_status \in {"failed", "not found"} => api.state \in {"raised", "exited"}

\* the command still polling after it has seen "failed"
C30_PollsOnAfterFailed ==
    /\ api.op = "submit_and_download" /\ api.state = "running"
    /\ api.last_status = "failed" /\ api.timeout = NoTimeout
    /\ Len(api.pauses) = 2

----------------------------------------------------------------------------
(* Claims about the extract object *)

\* C26: an extract object has no id until submit_extract succeeds: before
\* that extract_id, extract_info and extract_to_dict raise (extract_to_dict
\* IpumsExtractNotSubmitted); after a successful submit_extract extract_id
\* is the number of the API response and stays readable.
C26_IdOnlyAfterSubmit ==
    api.op = "extract" =>
        /\ api.number = NoId =>
                /\ api._id = NoId
                /\ api.call \in {"extract_id", "extract_info", "extract_to_dict"} =>
                        api.state = "raised"
                /\ api.call = "extract_to_dict" => api.exc = "IpumsExtractNotSubmitted"
        /\ api.number # NoId =>
                /\ api._id = api.number
                /\ api.call = "extract_id" => (api.state = "returned" /\ api.value = api.number)
                /\ api.call \in {"extract_info", "extract_to_dict"} =>
                        (api.state = "returned" /\ api.value.number = api.number)

C26_Witness ==
    /\ api.op = "extract" /\ api.number = 2
    /\ api.call = "extract_id" /\ api.state = "returned" /\ api.value = 2

\* a dict as the set of its entries, nested dicts likewise
RECURSIVE EntriesOf(_)
EntriesOf(items) ==
    {[key |-> items[i].key,
      is_dict |-> items[i].value.is_dict, n |-> items[i].value.n,
      entries |-> IF items[i].value.is_dict THEN EntriesOf(items[i].value.items) ELSE {}]
        : i \in DOMAIN items}

\* the entries with every key, nested ones too, replaced by its camelCase key
RECURSIVE CamelEntriesOf(_)
CamelEntriesOf(items) ==
    {[key |-> camel_key(items[i].key),
      is_dict |-> items[i].value.is_dict, n |-> items[i].value.n,
      entries |-> IF items[i].value.is_dict THEN CamelEntriesOf(items[i].value.items) ELSE {}]
        : i \in DOMAIN items}

\* C29: every extra keyword argument given to MicrodataExtract or
\* AggregateDataExtract appears in the output of build() under its camelCase
\* key with its value unchanged: no entry is lost, whether the key has
\* underscores or is a single word, and the keys of nested dicts are
\* converted the same way.
C29_KwargsKeptInBuild ==
    (api.op = "extract" /\ api.call = "build") =>
        CamelEntriesOf(api.given) \subseteq EntriesOf(api.value.kwargs)

\* a single-word keyword argument missing from the output of build()
C29_SingleWordLost ==
    /\ api.op = "extract" /\ api.call = "build"
    /\ api.given = << [key |-> <<"a">>, value |-> IntVal(1)] >>
    /\ api.value.kwargs = <<>>

----------------------------------------------------------------------------
(* Claims about the two shapes of a hierarchical result *)

\* the tables the same call returns with as_dict=True
PartitionOf(subset) == read_hierarchical_microdata(ddi, file, subset, TRUE)

\* the rows of the unified table whose RECTYPE is t, cut to the columns cols
UnifiedRowsOf(t, cols) ==
    LET rows == SelectSeq(result.frame.rows, LAMBDA row : row.c["RECTYPE"] = StrV(t))
    IN  [i \in DOMAIN rows |-> [n \in ToSet(cols) |-> rows[i].c[n]]]

TableRowsOf(df) == [i \in DOMAIN df.rows |-> [n \in ToSet(df.cols) |-> df.rows[i].c[n]]]

\* C28: the unified and the partitioned result of a hierarchical file agree:
\* for every record type t with a partition table, the rows of the unified
\* table with RECTYPE = t carry, in every column of t's table, the same
\* values and the same column type.
C28_UnifiedAgreesWithPartition ==
    (HierReturned /\ ~result.as_dict) =>
        \A i \in DOMAIN PartitionOf(result.subset).tables :
            LET t == PartitionOf(result.subset).tables[i].rt
                df == PartitionOf(result.subset).tables[i].df
            IN  /\ UnifiedRowsOf(t, df.cols) = TableRowsOf(df)
                /\ \A n \in ToSet(df.cols) : result.frame.dtype[n] = df.dtype[n]

\* the two results do agree as soon as two record types have a table
C28_AgreeWithTwoTables ==
    (Len(PartitionOf(result.subset).tables) >= 2) => C28_UnifiedAgreesWithPartition


====
